---- MODULE Spec2Model ----
(***************************************************************************)
(* Model of the trading platform backend (backend/app): the strategy       *)
(* execution engine (services/strategy_manager.py), the strategy variants  *)
(* (strategies/*.py) and the order placement path                          *)
(* (services/exchange_service.py, exchanges/*.py).                         *)
(*                                                                         *)
(* Numbers.  Prices and amounts are whole dollars.  Floats                  *)
(* that are quotients (order quantities, positions, max_position) are fixed *)
(* point integers counting 1/QtyScale of a coin; thresholds of the mean     *)
(* reversion strategy are integers counting 1/ThresholdScale.  A JSON      *)
(* config value that is not a number (a string, null) is NotANumber; every *)
(* Python comparison or arithmetic on it raises TypeError.                 *)
(***************************************************************************)
EXTENDS Integers, Sequences, FiniteSets, TLC

(***************************************************************************)
(* Bounds of the model                                                     *)
(***************************************************************************)
MaxTasks == 2          \* background tasks alive at the same time
MaxTicks == 1          \* iterations of the execution loops that call execute
MaxOrders == 1         \* calls of an adapter's place_order
MaxExchangeConfigs == 1   \* rows of the exchange_configs table
MaxUpdates == 1        \* update_strategy_config calls that pass validation
MaxExecutes == 4       \* execute calls on a strategy instance driven directly
MaxLevels == 3         \* num_levels of the grid configs a strategy is built from
MaxHistory == 4        \* prices in a Momentum price history
MaxChecks == 1         \* trades submitted to the Risk Gate

(***************************************************************************)
(* Units and encodings                                                     *)
(***************************************************************************)
QtyScale == 1000000
ThresholdScale == 1000
NotANumber == 0 - 999999

StrategyIds == {"s1", "s2"}
Users == {"u1", "u2"}

Abs(x) == IF x < 0 THEN 0 - x ELSE x
Max2(a, b) == IF a >= b THEN a ELSE b

\* a float quotient a / b as fixed point (b > 0 wherever the code divides)
FDiv(a, b) == (a * QtyScale) \div b

(***************************************************************************)
(* Config dictionaries: functions from a set of keys to values             *)
(***************************************************************************)
IsNumber(v) == v # NotANumber

\* dict.get(key, default)
Get(config, key, default) == IF key \in DOMAIN config THEN config[key] ELSE default

\* dict.update(new_config) on a copy
DictUpdate(config, new_config) ==
    [k \in DOMAIN config \cup DOMAIN new_config |->
        IF k \in DOMAIN new_config THEN new_config[k] ELSE config[k]]

\* every required field is present and is a number
HasNumbers(config, fields) ==
    /\ fields \subseteq DOMAIN config
    /\ \A f \in fields : IsNumber(config[f])

(***************************************************************************)
(* TradeSignal and StrategyStatus                                          *)
(***************************************************************************)
BUY == "buy"
SELL == "sell"
HOLD == "hold"
None == "none"

STOPPED == "StrategyStatus.STOPPED"
ACTIVE == "StrategyStatus.ACTIVE"
PAUSED == "StrategyStatus.PAUSED"
ERROR == "StrategyStatus.ERROR"
\* the plain string the execution loop stores on failure
ErrorString == "error"

StrategyStatus == {ACTIVE, PAUSED, STOPPED, ERROR}

\* StrategyStatus.value
StatusValue(status) ==
    CASE status = ACTIVE -> "active"
      [] status = PAUSED -> "paused"
      [] status = STOPPED -> "stopped"
      [] status = ERROR -> "error"

(***************************************************************************)
(* BaseStrategy.__init__ and the constructors of the variants              *)
(***************************************************************************)
NewStrategy(type, config, user_id) ==
    [type |-> type, config |-> config, user_id |-> user_id,
     status |-> STOPPED, last_execution |-> 0, total_trades |-> 0,
     total_pnl |-> 0, is_running |-> FALSE,
     grid_levels |-> <<>>, current_position |-> 0,
     base_price |-> 0, grid_spacing |-> 0,
     price_history |-> <<>>, sma_short |-> <<>>, sma_long |-> <<>>,
     last_signal |-> None]

\* BaseStrategy.log_trade; now is the clock reading of datetime.utcnow()
log_trade(s, now) ==
    [s EXCEPT !.total_trades = @ + 1, !.total_pnl = @ + 0, !.last_execution = now]

(***************************************************************************)
(* GridStrategy                                                            *)
(***************************************************************************)
GridRequired == {"base_price", "grid_spacing", "num_levels", "base_amount"}

GridValidateConfig(config) ==
    /\ HasNumbers(config, GridRequired)
    /\ config["base_price"] > 0
    /\ config["grid_spacing"] > 0
    /\ config["num_levels"] > 0 /\ config["num_levels"] <= 100
    /\ config["base_amount"] > 0
    /\ config["base_price"] - (config["num_levels"] * config["grid_spacing"]) > 0

\* list.sort(key=price): stable insertion sort
RECURSIVE InsertByPrice(_, _)
InsertByPrice(sorted, level) ==
    IF sorted = <<>> THEN <<level>>
    ELSE IF sorted[Len(sorted)]["price"] <= level["price"]
         THEN Append(sorted, level)
         ELSE Append(InsertByPrice(SubSeq(sorted, 1, Len(sorted) - 1), level),
                     sorted[Len(sorted)])

RECURSIVE SortByPrice(_)
SortByPrice(levels) ==
    IF levels = <<>> THEN <<>>
    ELSE InsertByPrice(SortByPrice(SubSeq(levels, 1, Len(levels) - 1)),
                       levels[Len(levels)])

\* a loop "for i in range(-num_levels, num_levels)"
RECURSIVE GridBuildShort(_, _, _, _)
GridBuildShort(base_price, grid_spacing, num_levels, i) ==
    IF i >= num_levels THEN <<>>
    ELSE LET level_price == base_price + (i * grid_spacing)
             rest == GridBuildShort(base_price, grid_spacing, num_levels, i + 1)
         IN IF level_price > 0
            THEN <<[price |-> level_price,
                    type |-> IF i < 0 THEN "buy" ELSE "sell",
                    filled |-> FALSE]>> \o rest
            ELSE rest

\* the loop "for i in range(-num_levels, num_levels + 1)" from index i on
RECURSIVE GridBuild(_, _, _, _)
GridBuild(base_price, grid_spacing, num_levels, i) ==
    IF i > num_levels THEN <<>>
    ELSE LET level_price == base_price + (i * grid_spacing)
             rest == GridBuild(base_price, grid_spacing, num_levels, i + 1)
         IN IF level_price > 0
            THEN <<[price |-> level_price,
                    type |-> IF i < 0 THEN "buy" ELSE "sell",
                    filled |-> FALSE]>> \o rest
            ELSE rest

\* GridStrategy.initialize: [ok, s]
GridInitialize(s) ==
    LET bp == Get(s.config, "base_price", 0)
        gs == Get(s.config, "grid_spacing", 0)
        nl == Get(s.config, "num_levels", 10)
    IN IF ~IsNumber(bp) \/ ~IsNumber(gs) \/ ~IsNumber(nl)
       THEN [ok |-> FALSE,
             s |-> [s EXCEPT !.base_price = bp, !.grid_spacing = gs]]
       ELSE IF bp <= 0 \/ gs <= 0 \/ nl <= 0
       THEN [ok |-> FALSE,
             s |-> [s EXCEPT !.base_price = bp, !.grid_spacing = gs]]
       ELSE [ok |-> TRUE,
             s |-> [s EXCEPT !.base_price = bp, !.grid_spacing = gs,
                             !.grid_levels =
                                 SortByPrice(GridBuild(bp, gs, nl, 0 - nl))]]

\* GridStrategy.calculate_position_size: [quantity, s]
GridCalculatePositionSize(s, signal, price) ==
    LET base_amount == Get(s.config, "base_amount", 100)
        max_position == Get(s.config, "max_position", 1000 * QtyScale)
    IN IF ~IsNumber(base_amount) \/ ~IsNumber(max_position)
       THEN [quantity |-> 0, s |-> s]
       ELSE LET q0 == FDiv(base_amount, price)
                quantity == IF s.current_position + q0 > max_position
                            THEN max_position - s.current_position
                            ELSE q0
            IN [quantity |-> quantity,
                s |-> [s EXCEPT !.current_position =
                           IF signal = BUY THEN @ + quantity ELSE @ - quantity]]

\* the search with "distance <= min_distance": ties go to the later level
RECURSIVE GridClosestUpper(_, _, _, _)
GridClosestUpper(levels, price, i, best) ==
    IF i > Len(levels) THEN best
    ELSE IF ~levels[i]["filled"]
            /\ (best = 0 \/ Abs(price - levels[i]["price"])
                              <= Abs(price - levels[best]["price"]))
         THEN GridClosestUpper(levels, price, i + 1, i)
         ELSE GridClosestUpper(levels, price, i + 1, best)

\* index of the closest unfilled level, 0 when every level is filled
RECURSIVE GridClosest(_, _, _, _)
GridClosest(levels, price, i, best) ==
    IF i > Len(levels) THEN best
    ELSE IF ~levels[i]["filled"]
            /\ (best = 0 \/ Abs(price - levels[i]["price"])
                              < Abs(price - levels[best]["price"]))
         THEN GridClosest(levels, price, i + 1, i)
         ELSE GridClosest(levels, price, i + 1, best)

\* min_distance <= config.get('trigger_threshold', grid_spacing * 0.1)
GridWithinTrigger(s, min_distance) ==
    IF "trigger_threshold" \in DOMAIN s.config
    THEN min_distance <= s.config["trigger_threshold"]
    ELSE min_distance * 10 <= s.grid_spacing

\* GridStrategy.execute: [signal, s]
GridExecute(s, price, now) ==
    IF ~s.is_running THEN [signal |-> None, s |-> s]
    ELSE IF price <= 0 THEN [signal |-> None, s |-> s]
    ELSE LET c == GridClosest(s.grid_levels, price, 1, 0)
         IN IF c = 0 THEN [signal |-> None, s |-> s]
            ELSE IF ~IsNumber(Get(s.config, "trigger_threshold", 0))
            THEN [signal |-> None, s |-> s]
            ELSE LET level == s.grid_levels[c]
                     min_distance == Abs(price - level["price"])
                 IN IF ~GridWithinTrigger(s, min_distance)
                    THEN [signal |-> None, s |-> s]
                    ELSE IF ~(\/ level["type"] = "buy" /\ price <= level["price"]
                              \/ level["type"] = "sell" /\ price >= level["price"])
                    THEN [signal |-> None, s |-> s]
                    ELSE LET signal == IF level["type"] = "buy" THEN BUY ELSE SELL
                             marked == [s EXCEPT !.grid_levels[c]["filled"] = TRUE]
                             sized == GridCalculatePositionSize(marked, signal, price)
                         IN [signal |-> signal, s |-> log_trade(sized.s, now)]

\* GridStrategy.reset_grid
RECURSIVE GridUnfill(_)
GridUnfill(levels) ==
    IF levels = <<>> THEN <<>>
    ELSE <<[levels[1] EXCEPT !["filled"] = FALSE]>> \o GridUnfill(Tail(levels))

reset_grid(s) == [s EXCEPT !.grid_levels = GridUnfill(@), !.current_position = 0]

(***************************************************************************)
(* MeanReversionStrategy                                                   *)
(***************************************************************************)
MRRequired == {"short_period", "long_period", "buy_threshold",
               "sell_threshold", "base_amount"}

PriceHistoryMaxLen == 200
SmaShortMaxLen == 50
SmaLongMaxLen == 200

MRValidateConfig(config) ==
    /\ HasNumbers(config, MRRequired)
    /\ ~(config["short_period"] <= 0 \/ config["long_period"] <= 0)
    /\ ~(config["short_period"] >= config["long_period"])
    /\ ~(config["buy_threshold"] >= 0 \/ config["sell_threshold"] <= 0)
    /\ ~(\/ Abs(config["buy_threshold"]) * 10 > 5 * ThresholdScale
         \/ Abs(config["sell_threshold"]) * 10 > 5 * ThresholdScale)
    /\ ~(config["base_amount"] <= 0)

\* deque(maxlen=n).append
DequeAppend(q, x, maxlen) ==
    IF Len(q) >= maxlen THEN Append(SubSeq(q, 2, Len(q)), x) ELSE Append(q, x)

\* MeanReversionStrategy.initialize: [ok, s]
MRInitialize(s) ==
    [ok |-> TRUE,
     s |-> [s EXCEPT !.price_history = <<>>, !.sma_short = <<>>,
                     !.sma_long = <<>>]]

RECURSIVE SeqSum(_)
SeqSum(q) == IF q = <<>> THEN 0 ELSE q[1] + SeqSum(SubSeq(q, 2, Len(q)))

\* list[-k:] for k >= 1
LastK(q, k) == IF k >= Len(q) THEN q ELSE SubSeq(q, Len(q) - k + 1, Len(q))

\* np.mean(list[-k:]) kept exact as the pair <<sum, count>>
Mean(q, k) == <<SeqSum(LastK(q, k)), Len(LastK(q, k))>>

\* MeanReversionStrategy.calculate_position_size: [quantity, s]
MRCalculatePositionSize(s, signal, price) ==
    LET base_amount == Get(s.config, "base_amount", 100)
        deviation == Get(s.config, "buy_threshold", 0 - 20)
        max_position == Get(s.config, "max_position", 1000 * QtyScale)
    IN IF ~IsNumber(base_amount) \/ ~IsNumber(deviation) \/ ~IsNumber(max_position)
       THEN [quantity |-> 0, s |-> s]
       ELSE LET q0 == FDiv(base_amount, price)
                q1 == IF Abs(deviation) * 100 > 5 * ThresholdScale
                      THEN (q0 * 3) \div 2
                      ELSE IF Abs(deviation) * 100 < ThresholdScale
                           THEN q0 \div 2
                           ELSE q0
                q2 == IF signal = BUY
                      THEN IF s.current_position + q1 > max_position
                           THEN max_position - s.current_position ELSE q1
                      ELSE IF s.current_position - q1 < 0 - max_position
                           THEN s.current_position + max_position ELSE q1
                quantity == Max2(0, q2)
            IN [quantity |-> quantity,
                s |-> [s EXCEPT !.current_position =
                           IF signal = BUY THEN @ + quantity
                           ELSE IF signal = SELL THEN @ - quantity ELSE @]]

\* MeanReversionStrategy.execute: [signal, s]
MRExecute(s, price, now) ==
    IF ~s.is_running THEN [signal |-> None, s |-> s]
    ELSE IF price <= 0 THEN [signal |-> None, s |-> s]
    ELSE
    LET s1 == [s EXCEPT !.price_history = DequeAppend(@, price, PriceHistoryMaxLen)]
        short_period == Get(s.config, "short_period", 20)
        long_period == Get(s.config, "long_period", 50)
    IN IF ~IsNumber(long_period) THEN [signal |-> None, s |-> s1]
       ELSE IF Len(s1.price_history) < long_period THEN [signal |-> None, s |-> s1]
       ELSE IF ~IsNumber(short_period) THEN [signal |-> None, s |-> s1]
       ELSE
       LET s2 == IF Len(s1.price_history) >= short_period
                 THEN [s1 EXCEPT !.sma_short =
                          DequeAppend(@, Mean(s1.price_history, short_period),
                                      SmaShortMaxLen)]
                 ELSE s1
           long_sma == Mean(s2.price_history, long_period)
           s3 == [s2 EXCEPT !.sma_long = DequeAppend(@, long_sma, SmaLongMaxLen)]
           buy_threshold == Get(s.config, "buy_threshold", 0 - 20)
           sell_threshold == Get(s.config, "sell_threshold", 20)
           max_position == Get(s.config, "max_position", 1000 * QtyScale)
           \* deviation = (price - long_sma) / long_sma against threshold / Scale
           devNum == ((price * long_sma[2]) - long_sma[1]) * ThresholdScale
           below == devNum <= buy_threshold * long_sma[1]
           above == devNum >= sell_threshold * long_sma[1]
       IN IF ~IsNumber(buy_threshold) THEN [signal |-> None, s |-> s3]
          ELSE IF below /\ ~IsNumber(max_position) THEN [signal |-> None, s |-> s3]
          ELSE IF below /\ s3.current_position < max_position
          THEN IF s3.last_signal # BUY
               THEN LET sized == MRCalculatePositionSize(
                                     [s3 EXCEPT !.last_signal = BUY], BUY, price)
                    IN [signal |-> BUY, s |-> log_trade(sized.s, now)]
               ELSE [signal |-> None, s |-> s3]
          ELSE IF ~IsNumber(sell_threshold) THEN [signal |-> None, s |-> s3]
          ELSE IF above /\ ~IsNumber(max_position) THEN [signal |-> None, s |-> s3]
          ELSE IF above /\ s3.current_position > 0 - max_position
          THEN IF s3.last_signal # SELL
               THEN LET sized == MRCalculatePositionSize(
                                     [s3 EXCEPT !.last_signal = SELL], SELL, price)
                    IN [signal |-> SELL, s |-> log_trade(sized.s, now)]
               ELSE [signal |-> None, s |-> s3]
          ELSE [signal |-> HOLD, s |-> [s3 EXCEPT !.last_signal = None]]

(***************************************************************************)
(* MomentumStrategy                                                        *)
(***************************************************************************)
MOMENTUM == "momentum"

MomentumRequired ==
    {"rsi_period", "macd_fast", "macd_slow", "macd_signal",
     "rsi_oversold", "rsi_overbought", "base_amount"}

MomentumValidateConfig(config) ==
    /\ HasNumbers(config, MomentumRequired)
    /\ ~(config["rsi_period"] <= 0)
    /\ ~(config["macd_fast"] <= 0 \/ config["macd_slow"] <= 0
          \/ config["macd_signal"] <= 0)
    /\ ~(config["macd_fast"] >= config["macd_slow"])
    /\ ~(config["rsi_oversold"] >= config["rsi_overbought"])
    /\ ~(config["rsi_oversold"] < 0 \/ config["rsi_overbought"] > 100)
    /\ ~(config["base_amount"] <= 0)

\* MomentumStrategy.__init__; trend_direction None is the string "none"
NewMomentumStrategy(config, user_id) ==
    [type |-> MOMENTUM, config |-> config, user_id |-> user_id,
     status |-> STOPPED, is_running |-> FALSE,
     price_history |-> <<>>, rsi_values |-> <<>>, macd_values |-> <<>>,
     current_position |-> 0, trend_direction |-> None]

\* an RSI value is the exact quotient num / den; None is available = FALSE
NoRsi == [available |-> FALSE, num |-> 0, den |-> 1]
Rsi(num, den) == [available |-> TRUE, num |-> num, den |-> den]
RsiLess(rsi, x) == rsi.num < x * rsi.den
RsiGreater(rsi, x) == rsi.num > x * rsi.den

\* prices[i] - prices[i-1] for i in range(1, len(prices))
Changes(prices) == [i \in 1..(Len(prices) - 1) |-> prices[i + 1] - prices[i]]

RsiGain(change) == IF change > 0 THEN change ELSE 0

\* a loss appended without abs()
RsiLossSigned(change) == IF change > 0 THEN 0 ELSE change

RsiLoss(change) == IF change > 0 THEN 0 ELSE Abs(change)

\* MomentumStrategy._calculate_rsi. With G and L the sums of the last
\* period gains and losses: avg_gain = G / period, avg_loss = L / period,
\* rs = G / L, 1 + rs = (L + G) / L, 100 / (1 + rs) = 100 L / (L + G) and
\* rsi = (100 (L + G) - 100 L) / (L + G). A division by zero raises and the
\* handler returns None.
MomentumCalculateRsi(price_history, config) ==
    LET period == Get(config, "rsi_period", 14)
    IN IF ~IsNumber(period) THEN NoRsi
       ELSE IF Len(price_history) < period + 1 THEN NoRsi
       ELSE LET changes == Changes(price_history)
                gains == [i \in DOMAIN changes |-> RsiGain(changes[i])]
                losses == [i \in DOMAIN changes |-> RsiLoss(changes[i])]
                G == SeqSum(LastK(gains, period))
                L == SeqSum(LastK(losses, period))
            IN IF Len(gains) < period THEN NoRsi
               ELSE IF period = 0 THEN NoRsi
               ELSE IF L = 0 THEN Rsi(100, 1)
               ELSE IF L + G = 0 THEN NoRsi
               ELSE Rsi((100 * (L + G)) - (100 * L), L + G)

\* macd > macd_signal or macd >= macd_signal
MacdBullishOrEqual(macd, macd_signal) ==
    IF IsNumber(macd_signal) THEN macd >= macd_signal ELSE FALSE

\* macd_bullish; None is NotANumber
MacdBullish(macd, macd_signal) ==
    IF IsNumber(macd_signal) THEN macd > macd_signal ELSE FALSE

MacdBearish(macd, macd_signal) ==
    IF IsNumber(macd_signal) THEN macd < macd_signal ELSE FALSE

\* MomentumStrategy._generate_signal; a comparison with a value that is
\* not a number raises and the handler returns HOLD
MomentumGenerateSignal(s, rsi, macd, macd_signal) ==
    IF ~rsi.available \/ ~IsNumber(macd) THEN HOLD
    ELSE LET rsi_oversold == Get(s.config, "rsi_oversold", 30)
             rsi_overbought == Get(s.config, "rsi_overbought", 70)
             max_position == Get(s.config, "max_position", 1000 * QtyScale)
             macd_bullish == MacdBullish(macd, macd_signal)
             macd_bearish == MacdBearish(macd, macd_signal)
         IN IF ~IsNumber(rsi_oversold) THEN HOLD
            ELSE IF /\ RsiLess(rsi, rsi_oversold)
                    /\ macd_bullish
                    /\ s.trend_direction = "up"
                    /\ ~IsNumber(max_position)
            THEN HOLD
            ELSE IF /\ RsiLess(rsi, rsi_oversold)
                    /\ macd_bullish
                    /\ s.trend_direction = "up"
                    /\ s.current_position < max_position
            THEN BUY
            ELSE IF ~IsNumber(rsi_overbought) THEN HOLD
            ELSE IF /\ RsiGreater(rsi, rsi_overbought)
                    /\ macd_bearish
                    /\ s.trend_direction = "down"
                    /\ ~IsNumber(max_position)
            THEN HOLD
            ELSE IF /\ RsiGreater(rsi, rsi_overbought)
                    /\ macd_bearish
                    /\ s.trend_direction = "down"
                    /\ s.current_position > 0 - max_position
            THEN SELL
            ELSE HOLD

(***************************************************************************)
(* StrategyFactory and the polymorphic calls of BaseStrategy               *)
(***************************************************************************)
GRID == "grid"
MEAN_REVERSION == "mean_reversion"
StrategyTypes == {GRID, MEAN_REVERSION}

\* StrategyFactory.create_strategy: [ok, s]
create_strategy(type, config, user_id) ==
    IF type \in StrategyTypes
    THEN [ok |-> TRUE, s |-> NewStrategy(type, config, user_id)]
    ELSE [ok |-> FALSE, s |-> NewStrategy(type, config, user_id)]

validate_config(type, config) ==
    IF type = GRID THEN GridValidateConfig(config) ELSE MRValidateConfig(config)

initialize(s) == IF s.type = GRID THEN GridInitialize(s) ELSE MRInitialize(s)

execute(s, price, now) ==
    IF s.type = GRID THEN GridExecute(s, price, now) ELSE MRExecute(s, price, now)

\* a start that skips validate_config
start_without_validation(s) ==
    LET init == initialize(s)
    IN IF init.ok
       THEN [ok |-> TRUE,
             s |-> [init.s EXCEPT !.status = ACTIVE, !.is_running = TRUE]]
       ELSE [ok |-> FALSE, s |-> init.s]

\* strategy.calculate_position_size(signal, market_data): [quantity, s]
calculate_position_size(s, signal, price) ==
    IF s.type = GRID THEN GridCalculatePositionSize(s, signal, price)
    ELSE MRCalculatePositionSize(s, signal, price)

\* BaseStrategy.start: [ok, s]
start(s) ==
    IF validate_config(s.type, s.config)
    THEN LET init == initialize(s)
         IN IF init.ok
            THEN [ok |-> TRUE,
                  s |-> [init.s EXCEPT !.status = ACTIVE, !.is_running = TRUE]]
            ELSE [ok |-> FALSE, s |-> init.s]
    ELSE [ok |-> FALSE, s |-> s]

\* BaseStrategy.stop
stop(s) == [s EXCEPT !.is_running = FALSE, !.status = STOPPED]

\* a pause that also runs initialize again
pause_and_initialize(s) ==
    [initialize(s).s EXCEPT !.is_running = FALSE, !.status = PAUSED]

\* BaseStrategy.pause
pause(s) == [s EXCEPT !.is_running = FALSE, !.status = PAUSED]

\* BaseStrategy.resume: [ok, s]
resume(s) ==
    IF s.status = PAUSED
    THEN [ok |-> TRUE, s |-> [s EXCEPT !.is_running = TRUE, !.status = ACTIVE]]
    ELSE [ok |-> FALSE, s |-> s]

\* an update_config that does not restore old_config
update_config_without_revert(s, new_config) ==
    LET merged == DictUpdate(s.config, new_config)
    IN [ok |-> validate_config(s.type, merged), s |-> [s EXCEPT !.config = merged]]

\* BaseStrategy.update_config: [ok, s]
update_config(s, new_config) ==
    LET old_config == s.config
        merged == DictUpdate(s.config, new_config)
    IN IF validate_config(s.type, merged)
       THEN [ok |-> TRUE, s |-> [s EXCEPT !.config = merged]]
       ELSE [ok |-> FALSE, s |-> [s EXCEPT !.config = old_config]]

\* BaseStrategy.get_status: [raised, snapshot]; status.value raises
\* AttributeError when status holds a plain string
get_status(s) ==
    IF s.status \in StrategyStatus
    THEN [raised |-> FALSE,
          snapshot |-> [status |-> StatusValue(s.status),
                        is_running |-> s.is_running,
                        last_execution |-> s.last_execution,
                        total_trades |-> s.total_trades,
                        total_pnl |-> s.total_pnl,
                        config |-> s.config]]
    ELSE [raised |-> TRUE, snapshot |-> <<>>]

(***************************************************************************)
(* Exchange adapters (BinanceExchange, BybitExchange) and ExchangeFactory  *)
(***************************************************************************)
\* price: Optional[float] = None
NoPrice == 0 - 888888
MARKET == "market"
LIMIT == "limit"
ExchangeType == {"binance", "bybit"}

\* BaseExchange.validate_symbol; a symbol is a sequence of characters
validate_symbol(symbol) == ~(Len(symbol) = 0 \/ Len(symbol) < 3)

\* BaseExchange.validate_quantity
validate_quantity(quantity) == ~(quantity <= 0)

\* BaseExchange.validate_price
validate_price(price) == ~(price <= 0)

\* the truth value of "price" in "if price and order_type != OrderType.MARKET"
Truthy(price) == price # NoPrice /\ price # 0

\* BinanceExchange.place_order / BybitExchange.place_order: sent tells
\* whether the POST was made, order whether an Order came back;
\* has_order_id is the exchange's answer
AdapterPlaceOrder(symbol, side, order_type, quantity, price, has_order_id) ==
    IF ~validate_symbol(symbol) \/ ~validate_quantity(quantity)
    THEN [sent |-> FALSE, order |-> FALSE]
    ELSE IF Truthy(price) /\ order_type # MARKET /\ ~validate_price(price)
    THEN [sent |-> FALSE, order |-> FALSE]
    ELSE [sent |-> TRUE, order |-> has_order_id]

\* exchange_id = f"{exchange_type}_{api_key[:8]}"; an API key is the pair
\* <<first 8 characters, the rest>>
ExchangeInstanceId(exchange_type, api_key) == <<exchange_type, api_key[1]>>

(***************************************************************************)
(* Inputs                                                                  *)
(***************************************************************************)
\* _get_mock_market_data: price = 50000 + uniform(-1000, 1000)
MockPrices == {49000, 51000}

GridConfig ==
    [base_price |-> 50000, grid_spacing |-> 1000, num_levels |-> 1,
     base_amount |-> 100, trigger_threshold |-> 100]
GridConfigBadInterval ==
    [base_price |-> 50000, grid_spacing |-> 1000, num_levels |-> 1,
     base_amount |-> 100, trigger_threshold |-> 100,
     execution_interval |-> NotANumber]
MRConfig ==
    [short_period |-> 1, long_period |-> 2, buy_threshold |-> 0 - 20,
     sell_threshold |-> 20, base_amount |-> 100]

\* the stored strategy records a run starts from
DbConfigs(sid) ==
    IF sid = "s1" THEN {GridConfig, GridConfigBadInterval}
    ELSE {MRConfig}
DbType(sid) == IF sid = "s1" THEN GRID ELSE MEAN_REVERSION
DbOwner(sid) == IF sid = "s1" THEN "u1" ELSE "u2"
DbIsActive(sid) == {TRUE}

\* the new_config arguments of update_strategy_config
NewConfigs ==
    <<[max_position |-> 2000],
      [grid_spacing |-> 0, long_period |-> 1]>>

\* the arguments of the exchange calls
ApiKeys == {<<"AAAAAAAA", "1">>}
ExchangeTypeInputs == {"binance", "kraken"}
Symbols == {<<"B", "T", "C", "U", "S", "D", "T">>, <<"B", "T">>}
OrderInputs ==
    [symbol : Symbols, side : {BUY}, order_type : {LIMIT},
     quantity : {0, 1}, price : {0 - 5, 50000}]

(***************************************************************************)
(* State                                                                   *)
(***************************************************************************)
VARIABLES
    db,                 \* strategies table: id -> row
    active_strategies,  \* StrategyManager.active_strategies: id -> strategy
    tasks,              \* id -> number of live _execute_strategy(id) tasks
    updates,            \* configuration updates accepted so far
    ticks,              \* execute calls made so far (also the clock)
    ret,                \* the last call and what it returned
    exchange_configs,   \* exchange_configs table: rows in order of insertion
    exchanges,          \* ExchangeFactory.exchanges: instance id -> adapter
    orders,             \* the calls of adapter.place_order, in order
    risk_checks,        \* the trades the Risk Gate has evaluated, in order
    risk_profiles,      \* risk_profiles table: user -> active profile
    clock,              \* datetime.utcnow(): weekday, hour, minute
    pnl_snapshot,       \* the account's P&L per period, which the mock data stand for
    adapters,           \* the adapter objects constructed so far, in order
    coroutines,         \* task -> frame of the gateway coroutine it runs
    calls,              \* gateway calls begun so far
    feeds,              \* one adapter's price feeds: dicts, sockets, listener tasks
    accounts            \* users table and the access tokens issued

vars == <<db, active_strategies, tasks, updates, ticks, ret,
          exchange_configs, exchanges, orders, risk_checks,
          risk_profiles, clock, pnl_snapshot, adapters, coroutines,
          calls, feeds, accounts>>
engineVars == <<db, active_strategies, tasks, updates, ticks>>
riskVars == <<risk_checks, risk_profiles, clock, pnl_snapshot, accounts>>
factoryVars == <<adapters, coroutines, calls, feeds>>
gatewayVars == <<exchange_configs, exchanges, orders, riskVars, factoryVars>>

\* BinanceExchange.__init__: ws_connections = {}, price_callbacks = {}; no
\* websocket exists and no subscribe or unsubscribe call is running
NoFeeds ==
    [ws_connections |-> <<>>, price_callbacks |-> <<>>, sockets |-> <<>>,
     frames |-> <<>>]

\* no adapter object exists and no gateway coroutine runs
NoFactory ==
    /\ adapters = <<>>
    /\ coroutines = <<>>
    /\ calls = 0
    /\ feeds = NoFeeds

\* the users table is empty and no token was issued
NoAccounts == [users |-> <<>>, tokens |-> {}]

\* no risk profile and no user exist and the Risk Gate is not called
NoRiskGate ==
    /\ risk_checks = <<>>
    /\ risk_profiles = <<>>
    /\ clock = [weekday |-> 0, hour |-> 0, minute |-> 0]
    /\ pnl_snapshot = [daily |-> 0, weekly |-> 0, monthly |-> 0, total |-> 0]
    /\ accounts = NoAccounts

Registered(sid) == sid \in DOMAIN active_strategies

RECURSIVE SumOver(_, _)
SumOver(f, S) ==
    IF S = {} THEN 0
    ELSE LET x == CHOOSE y \in S : TRUE IN f[x] + SumOver(f, S \ {x})

\* the number of tasks that have not ended
LiveTasks == SumOver(tasks, StrategyIds)

\* self.active_strategies[strategy_id] = strategy
RegistryPut(reg, sid, s) ==
    [k \in DOMAIN reg \cup {sid} |-> IF k = sid THEN s ELSE reg[k]]

\* a stop that leaves the entry in place
RegistryKeep(reg, sid) == reg

\* del self.active_strategies[strategy_id]
RegistryDel(reg, sid) == [k \in DOMAIN reg \ {sid} |-> reg[k]]

\* the last call: its name, the value v it returned, the status snapshots
\* that value carries, and the message it logged last
Ret(op, v, log, snap) == [op |-> op, v |-> v, log |-> log, snap |-> snap]

Init ==
    /\ db \in {row \in [StrategyIds -> [user_id : Users, type : StrategyTypes,
                                        config : DbConfigs("s1") \cup DbConfigs("s2"),
                                        is_active : BOOLEAN]] :
                 \A sid \in StrategyIds :
                    /\ row[sid].user_id = DbOwner(sid)
                    /\ row[sid].type = DbType(sid)
                    /\ row[sid].config \in DbConfigs(sid)
                    /\ row[sid].is_active \in DbIsActive(sid)}
    /\ active_strategies = <<>>
    /\ tasks = [sid \in StrategyIds |-> 0]
    /\ updates = 0
    /\ ticks = 0
    /\ ret = Ret("", "init", "", {})
    /\ exchange_configs = <<>>
    /\ exchanges = <<>>
    /\ NoFactory
    /\ orders = <<>>
    /\ NoRiskGate

(***************************************************************************)
(* StrategyManager                                                         *)
(***************************************************************************)
\* an ownership test every caller passes
OwnsAlways(s, user) == TRUE

\* the ownership test "strategy.user_id != user_id" of every operation on
\* a registered strategy, negated
Owns(s, user) == s.user_id = user

start_strategy(sid, user) ==
    /\ LiveTasks < MaxTasks
    /\ LET db_strategy == db[sid]
           found == db_strategy.user_id = user
           made == create_strategy(db_strategy.type, db_strategy.config, user)
           started == start(made.s)
       IN IF found /\ db_strategy.is_active /\ made.ok /\ started.ok
          THEN /\ active_strategies' = RegistryPut(active_strategies, sid, started.s)
               /\ tasks' = [tasks EXCEPT ![sid] = @ + 1]
               /\ ret' = Ret("start_strategy", "true", "started successfully", {})
          ELSE /\ UNCHANGED <<active_strategies, tasks>>
               /\ ret' = Ret("start_strategy", "false",
                             IF ~found THEN "not found for user"
                             ELSE IF ~db_strategy.is_active THEN "is not active"
                             ELSE IF ~made.ok THEN "Failed to create strategy instance"
                             ELSE "Failed to start strategy", {})
    /\ UNCHANGED <<db, updates, ticks, gatewayVars>>

stop_strategy(sid, user) ==
    /\ IF ~Registered(sid)
       THEN /\ ret' = Ret("stop_strategy", "true", "is not running", {})
            /\ UNCHANGED active_strategies
       ELSE IF ~Owns(active_strategies[sid], user)
       THEN /\ ret' = Ret("stop_strategy", "false", "cannot stop strategy", {})
            /\ UNCHANGED active_strategies
       ELSE LET stopped == stop(active_strategies[sid])
            IN /\ active_strategies' =
                      RegistryDel(RegistryPut(active_strategies, sid, stopped), sid)
               /\ ret' = Ret("stop_strategy", "true", "stopped successfully", {})
    /\ UNCHANGED <<db, tasks, updates, ticks, gatewayVars>>

pause_strategy(sid, user) ==
    /\ IF ~Registered(sid)
       THEN /\ ret' = Ret("pause_strategy", "false", "is not running", {})
            /\ UNCHANGED active_strategies
       ELSE IF ~Owns(active_strategies[sid], user)
       THEN /\ ret' = Ret("pause_strategy", "false", "cannot pause strategy", {})
            /\ UNCHANGED active_strategies
       ELSE /\ active_strategies' =
                   [active_strategies EXCEPT ![sid] = pause(@)]
            /\ ret' = Ret("pause_strategy", "true", "paused successfully", {})
    /\ UNCHANGED <<db, tasks, updates, ticks, gatewayVars>>

resume_strategy(sid, user) ==
    /\ IF ~Registered(sid)
       THEN /\ ret' = Ret("resume_strategy", "false", "is not running", {})
            /\ UNCHANGED active_strategies
       ELSE IF ~Owns(active_strategies[sid], user)
       THEN /\ ret' = Ret("resume_strategy", "false", "cannot resume strategy", {})
            /\ UNCHANGED active_strategies
       ELSE LET r == resume(active_strategies[sid])
            IN /\ active_strategies' = [active_strategies EXCEPT ![sid] = r.s]
               /\ ret' = IF r.ok
                         THEN Ret("resume_strategy", "true", "resumed successfully", {})
                         ELSE Ret("resume_strategy", "false", "Failed to resume strategy", {})
    /\ UNCHANGED <<db, tasks, updates, ticks, gatewayVars>>

update_strategy_config(sid, user, new_config) ==
    /\ IF ~Registered(sid)
       THEN /\ ret' = Ret("update_strategy_config", "false", "is not running", {})
            /\ UNCHANGED <<active_strategies, db, updates>>
       ELSE IF ~Owns(active_strategies[sid], user)
       THEN /\ ret' = Ret("update_strategy_config", "false", "cannot update strategy", {})
            /\ UNCHANGED <<active_strategies, db, updates>>
       ELSE LET u == update_config(active_strategies[sid], new_config)
            IN /\ active_strategies' = [active_strategies EXCEPT ![sid] = u.s]
               /\ IF u.ok
                  THEN /\ updates < MaxUpdates
                       /\ updates' = updates + 1
                       /\ db' = IF db[sid].user_id = user
                                THEN [db EXCEPT ![sid].config = new_config]
                                ELSE db
                       /\ ret' = Ret("update_strategy_config", "true",
                                     "configuration updated successfully", {})
                  ELSE /\ UNCHANGED <<db, updates>>
                       /\ ret' = Ret("update_strategy_config", "false",
                                     "Failed to update strategy configuration", {})
    /\ UNCHANGED <<tasks, ticks, gatewayVars>>

\* status['id'] = strategy_id
WithId(sid, status) ==
    [id |-> sid, status |-> status.status, is_running |-> status.is_running,
     last_execution |-> status.last_execution,
     total_trades |-> status.total_trades, total_pnl |-> status.total_pnl,
     config |-> status.config]

get_strategy_status(sid, user) ==
    /\ IF ~Registered(sid)
       THEN ret' = Ret("get_strategy_status", "none", "", {})
       ELSE IF ~Owns(active_strategies[sid], user)
       THEN ret' = Ret("get_strategy_status", "none", "cannot access strategy", {})
       ELSE IF get_status(active_strategies[sid]).raised
       THEN ret' = Ret("get_strategy_status", "none", "Error getting strategy status", {})
       ELSE ret' = Ret("get_strategy_status", "dict", "",
                       {get_status(active_strategies[sid]).snapshot})
    /\ UNCHANGED <<engineVars, gatewayVars>>

get_all_strategies_status(user) ==
    /\ LET mine == {sid \in DOMAIN active_strategies :
                       active_strategies[sid].user_id = user}
       IN IF \E sid \in mine : get_status(active_strategies[sid]).raised
          THEN ret' = Ret("get_all_strategies_status", "list",
                          "Error getting strategies status", {})
          ELSE ret' = Ret("get_all_strategies_status", "list", "",
                          {WithId(sid, get_status(active_strategies[sid]).snapshot) :
                              sid \in mine})
    /\ UNCHANGED <<engineVars, gatewayVars>>

\* StrategyManager._process_trade_signal: logs the signal; the calls of
\* adapter.place_order after it are those before it
_process_trade_signal(placed, sid, signal, price) == placed

\* one run of a task of _execute_strategy(sid), from a wake-up (or its
\* first scheduling) to its next await asyncio.sleep or its end
_execute_strategy(sid, price) ==
    /\ tasks[sid] > 0
    /\    IF ~Registered(sid)
          THEN /\ tasks' = [tasks EXCEPT ![sid] = @ - 1]
               /\ ret' = Ret("_execute_strategy", "exit", "", {})
               /\ UNCHANGED <<active_strategies, ticks, orders>>
          ELSE IF ~active_strategies[sid].is_running
          THEN /\ ret' = Ret("_execute_strategy", "idle", "", {})
               /\ UNCHANGED <<active_strategies, tasks, ticks, orders>>
          ELSE /\ ticks < MaxTicks
               /\ LET r == execute(active_strategies[sid], price, ticks + 1)
                      execution_interval == Get(r.s.config, "execution_interval", 60)
                  IN /\ ticks' = ticks + 1
                     /\ orders' = IF r.signal \in {BUY, SELL}
                                  THEN _process_trade_signal(orders, sid, r.signal, price)
                                  ELSE orders
                     /\ IF IsNumber(execution_interval)
                        THEN /\ active_strategies' =
                                    [active_strategies EXCEPT ![sid] = r.s]
                             /\ tasks' = tasks
                             /\ ret' = Ret("_execute_strategy", r.signal, "", {})
                        ELSE /\ active_strategies' =
                                    [active_strategies EXCEPT ![sid] =
                                        [r.s EXCEPT !.status = ErrorString]]
                             /\ tasks' = [tasks EXCEPT ![sid] = @ - 1]
                             /\ ret' = Ret("_execute_strategy", "raise",
                                           "Error in strategy execution loop", {})
    /\ UNCHANGED <<db, updates, exchange_configs, exchanges, riskVars, factoryVars>>

(***************************************************************************)
(* ExchangeFactory and ExchangeService                                     *)
(***************************************************************************)
\* ExchangeFactory.create_exchange: the registry afterwards; connected is
\* the outcome of exchange.connect()
FactoryCreateExchange(reg, exchange_type, api_key, connected) ==
    IF exchange_type \in ExchangeType /\ connected
    THEN LET exchange_id == ExchangeInstanceId(exchange_type, api_key)
         IN [k \in DOMAIN reg \cup {exchange_id} |->
                IF k = exchange_id
                THEN [exchange_type |-> exchange_type, api_key |-> api_key,
                      is_connected |-> TRUE]
                ELSE reg[k]]
    ELSE reg

\* ExchangeService(db, user).create_exchange
create_exchange(user, exchange_type, api_key, connected) ==
    /\ Len(exchange_configs) < MaxExchangeConfigs
    /\ exchange_configs' = Append(exchange_configs,
                                  [user_id |-> user, exchange_type |-> exchange_type,
                                   api_key |-> api_key])
    /\ exchanges' = FactoryCreateExchange(exchanges, exchange_type, api_key, connected)
    /\ ret' = IF exchange_type \in ExchangeType /\ connected
              THEN Ret("create_exchange", "dict", "created successfully", {})
              ELSE Ret("create_exchange", "none", "Failed to create exchange instance", {})
    /\ UNCHANGED <<engineVars, orders, riskVars, factoryVars>>

\* ExchangeService(db, user).place_order
place_order(user, exchange_id, order_create, has_order_id) ==
    /\ Len(orders) < MaxOrders
    /\ IF ~(exchange_id \in 1..Len(exchange_configs))
       THEN /\ ret' = Ret("place_order", "none", "", {})
            /\ UNCHANGED orders
       ELSE IF exchange_configs[exchange_id].user_id # user
       THEN /\ ret' = Ret("place_order", "none", "", {})
            /\ UNCHANGED orders
       ELSE LET exchange == exchange_configs[exchange_id]
                exchange_instance_id ==
                    ExchangeInstanceId(exchange.exchange_type, exchange.api_key)
            IN IF exchange_instance_id \notin DOMAIN exchanges
               THEN /\ ret' = Ret("place_order", "none", "", {})
                    /\ UNCHANGED orders
               ELSE LET placed == AdapterPlaceOrder(order_create.symbol,
                                      order_create.side, order_create.order_type,
                                      order_create.quantity, order_create.price,
                                      has_order_id)
                    IN /\ orders' = Append(orders,
                              [user_id |-> user, exchange |-> exchange_instance_id,
                               request |-> order_create, sent |-> placed.sent,
                               order |-> placed.order])
                       /\ ret' = Ret("place_order",
                                     IF placed.order THEN "order" ELSE "none", "", {})
    /\ UNCHANGED <<engineVars, exchange_configs, exchanges, riskVars, factoryVars>>

(***************************************************************************)
(* RiskService: the Risk Gate                                              *)
(***************************************************************************)
\* trade_request.quantity is a fixed-point number of hundredths
RiskQtyScale == 100

\* a string is the sequence of the ASCII codes of its characters
Digit(d) == 48 + d
Colon == 58

\* now.strftime("%H:%M")
Strftime(hour, minute) ==
    <<Digit(hour \div 10), Digit(hour % 10), Colon,
      Digit(minute \div 10), Digit(minute % 10)>>

\* the same time of day written without the leading zero of the hour
Unpadded(hour, minute) ==
    IF hour < 10 THEN Tail(Strftime(hour, minute)) ELSE Strftime(hour, minute)

\* a <= b on Python strings
RECURSIVE StrLeq(_, _)
StrLeq(a, b) ==
    IF a = <<>> THEN TRUE
    ELSE IF b = <<>> THEN FALSE
    ELSE IF a[1] < b[1] THEN TRUE
    ELSE IF a[1] > b[1] THEN FALSE
    ELSE StrLeq(Tail(a), Tail(b))

IsDigit(c, low, high) == Digit(low) <= c /\ c <= Digit(high)

\* the pattern ^([0-1]?[0-9]|2[0-3]):[0-5][0-9]$
MatchesTimePattern(str) ==
    \/ /\ Len(str) = 4
       /\ IsDigit(str[1], 0, 9)
       /\ str[2] = Colon
       /\ IsDigit(str[3], 0, 5)
       /\ IsDigit(str[4], 0, 9)
    \/ /\ Len(str) = 5
       /\ \/ IsDigit(str[1], 0, 1) /\ IsDigit(str[2], 0, 9)
          \/ str[1] = Digit(2) /\ IsDigit(str[2], 0, 3)
       /\ str[3] = Colon
       /\ IsDigit(str[4], 0, 5)
       /\ IsDigit(str[5], 0, 9)

\* the time of day a string matching the pattern denotes, in minutes
MinutesOfDay(str) ==
    LET n == Len(str)
        hour == IF n = 4 THEN str[1] - Digit(0)
                ELSE ((str[1] - Digit(0)) * 10) + (str[2] - Digit(0))
        minute == ((str[n - 1] - Digit(0)) * 10) + (str[n] - Digit(0))
    IN (hour * 60) + minute

\* the field constraints and validators of RiskProfileCreate
ValidRiskProfile(profile) ==
    /\ profile.max_position_size > 0
    /\ profile.max_positions > 0 /\ profile.max_positions <= 100
    /\ profile.daily_loss_limit > 0
    /\ profile.weekly_loss_limit > 0
    /\ profile.monthly_loss_limit > 0
    /\ profile.total_loss_limit > 0
    /\ profile.max_volatility_threshold > 0
    /\ profile.max_volatility_threshold <= 200
    /\ MatchesTimePattern(profile.trading_hours_start)
    /\ MatchesTimePattern(profile.trading_hours_end)
    /\ ~(profile.weekly_loss_limit < profile.daily_loss_limit * 5)
    /\ ~(profile.monthly_loss_limit < profile.weekly_loss_limit * 3)
    /\ ~(profile.total_loss_limit < profile.monthly_loss_limit * 2)
    /\ ~StrLeq(profile.trading_hours_end, profile.trading_hours_start)

\* RiskService.get_risk_profile: <<profile>>, or <<>> for None
get_risk_profile(profiles, user_id) ==
    IF user_id \in DOMAIN profiles THEN <<profiles[user_id]>> ELSE <<>>

\* RiskService._check_trading_hours
_check_trading_hours(risk_profile, now) ==
    LET current_time == Strftime(now.hour, now.minute)
        current_weekday == now.weekday
    IN IF current_weekday >= 5 /\ ~risk_profile.weekend_trading THEN FALSE
       ELSE IF ~(/\ StrLeq(risk_profile.trading_hours_start, current_time)
                 /\ StrLeq(current_time, risk_profile.trading_hours_end))
       THEN FALSE
       ELSE TRUE

\* the mock data of the checks
current_positions == 3
daily_pnl == 2500
weekly_pnl == 8500
monthly_pnl == 18500
total_pnl == 25000
current_volatility == 25

\* trade_request.price or 50000
PriceOr(price, default) == IF Truthy(price) THEN price ELSE default

\* a list with the message when the condition holds
When(cond, message) == IF cond THEN <<message>> ELSE <<>>

\* a position check that looks at the number of open positions only
_check_position_count(risk_profile, trade_request) ==
    LET over_count == current_positions >= risk_profile.max_positions
        errors == When(over_count, "Maximum positions limit reached")
    IN [allowed |-> Len(errors) = 0,
        errors |-> errors,
        details |-> {k \in {"max_positions"} : over_count}]

\* RiskService._check_position_limits: [allowed, errors, details]
_check_position_limits(risk_profile, trade_request) ==
    LET over_count == current_positions >= risk_profile.max_positions
        over_size == trade_request.quantity * PriceOr(trade_request.price, 50000)
                        > risk_profile.max_position_size * RiskQtyScale
        errors == When(over_count, "Maximum positions limit reached")
                  \o When(over_size, "Position size exceeds limit")
    IN [allowed |-> Len(errors) = 0,
        errors |-> errors,
        details |-> {k \in {"max_positions", "position_size"} :
                        \/ k = "max_positions" /\ over_count
                        \/ k = "position_size" /\ over_size}]

\* RiskService._check_loss_limits: [allowed, errors, details]
_check_loss_limits(risk_profile) ==
    LET daily == daily_pnl < 0 - risk_profile.daily_loss_limit
        weekly == weekly_pnl < 0 - risk_profile.weekly_loss_limit
        monthly == monthly_pnl < 0 - risk_profile.monthly_loss_limit
        total == total_pnl < 0 - risk_profile.total_loss_limit
        errors == When(daily, "Daily loss limit exceeded")
                  \o When(weekly, "Weekly loss limit exceeded")
                  \o When(monthly, "Monthly loss limit exceeded")
                  \o When(total, "Total loss limit exceeded")
    IN [allowed |-> Len(errors) = 0,
        errors |-> errors,
        details |-> {k \in {"daily_loss", "weekly_loss", "monthly_loss", "total_loss"} :
                        \/ k = "daily_loss" /\ daily
                        \/ k = "weekly_loss" /\ weekly
                        \/ k = "monthly_loss" /\ monthly
                        \/ k = "total_loss" /\ total}]

\* RiskService._check_volatility: [allowed, warnings, details]
_check_volatility(risk_profile, trade_request) ==
    LET high == current_volatility > risk_profile.max_volatility_threshold
    IN [allowed |-> TRUE,
        warnings |-> When(high, "High volatility detected"),
        details |-> {k \in {"volatility"} : high}]

\* a score whose trade-size penalty grows with the trade value, 10 points per
\* 80% of max_position_size, and which is returned without the final clamp
_calculate_risk_score_proportional(risk_profile, trade_request, risk_factors) ==
    LET s1 == 50 + (IF "trading_hours" \in DOMAIN risk_factors THEN 20 ELSE 0)
        s2 == s1 + (IF "position_limits" \in DOMAIN risk_factors THEN 15 ELSE 0)
        s3 == s2 + (IF "loss_limits" \in DOMAIN risk_factors THEN 25 ELSE 0)
        s4 == s3 + (IF "volatility" \in DOMAIN risk_factors THEN 10 ELSE 0)
    IN IF Truthy(trade_request.price)
       THEN s4 + ((trade_request.quantity * trade_request.price * 100)
                     \div (risk_profile.max_position_size * 8 * RiskQtyScale))
       ELSE s4

\* RiskService._calculate_risk_score; risk_factors is the dict of factors
_calculate_risk_score(risk_profile, trade_request, risk_factors) ==
    LET s1 == 50 + (IF "trading_hours" \in DOMAIN risk_factors THEN 20 ELSE 0)
        s2 == s1 + (IF "position_limits" \in DOMAIN risk_factors THEN 15 ELSE 0)
        s3 == s2 + (IF "loss_limits" \in DOMAIN risk_factors THEN 25 ELSE 0)
        s4 == s3 + (IF "volatility" \in DOMAIN risk_factors THEN 10 ELSE 0)
        s5 == IF /\ Truthy(trade_request.price)
                 /\ trade_request.quantity * trade_request.price * 10
                       > risk_profile.max_position_size * 8 * RiskQtyScale
              THEN s4 + 10 ELSE s4
    IN IF Max2(0, s5) <= 100 THEN Max2(0, s5) ELSE 100

\* an absent suggested_quantity
NoQuantity == 0 - 777777

\* a suggestion scaled to the whole of max_position_size
_suggest_quantity_full(risk_profile, trade_request) ==
    IF ~Truthy(trade_request.price) THEN NoQuantity
    ELSE LET suggested_quantity ==
                 (risk_profile.max_position_size * RiskQtyScale)
                     \div trade_request.price
         IN IF suggested_quantity <= trade_request.quantity
            THEN suggested_quantity ELSE trade_request.quantity

\* RiskService._suggest_quantity
_suggest_quantity(risk_profile, trade_request) ==
    IF ~Truthy(trade_request.price) THEN NoQuantity
    ELSE LET suggested_quantity ==
                 (risk_profile.max_position_size * 8 * RiskQtyScale)
                     \div (10 * trade_request.price)
         IN IF suggested_quantity <= trade_request.quantity
            THEN suggested_quantity ELSE trade_request.quantity

\* RiskService._suggest_price
_suggest_price(risk_profile, trade_request) ==
    IF trade_request.order_type = MARKET THEN NoPrice
    ELSE IF ~Truthy(trade_request.price) THEN NoPrice
    ELSE IF trade_request.side = BUY THEN (trade_request.price * 98) \div 100
    ELSE (trade_request.price * 102) \div 100

\* RiskService.check_trade_risk: the RiskCheckResponse
CheckTradeRisk(profiles, user_id, trade_request, now) ==
    LET found == get_risk_profile(profiles, user_id)
        risk_profile == found[1]
    IN IF found = <<>>
       THEN [is_allowed |-> FALSE, risk_score |-> 100, warnings |-> <<>>,
             errors |-> <<"No risk profile found">>,
             suggested_quantity |-> NoQuantity, suggested_price |-> NoPrice,
             risk_factors |-> <<>>]
       ELSE
       LET hours_ok == _check_trading_hours(risk_profile, now)
           position_check == _check_position_limits(risk_profile, trade_request)
           loss_check == _check_loss_limits(risk_profile)
           volatility_check == _check_volatility(risk_profile, trade_request)
           errors == When(~hours_ok, "Trading outside allowed hours")
                     \o (IF ~position_check.allowed THEN position_check.errors ELSE <<>>)
                     \o (IF ~loss_check.allowed THEN loss_check.errors ELSE <<>>)
           warnings == IF ~volatility_check.allowed
                       THEN volatility_check.warnings ELSE <<>>
           keys == {k \in {"trading_hours", "position_limits", "loss_limits",
                            "volatility"} :
                       \/ k = "trading_hours" /\ ~hours_ok
                       \/ k = "position_limits" /\ ~position_check.allowed
                       \/ k = "loss_limits" /\ ~loss_check.allowed
                       \/ k = "volatility" /\ ~volatility_check.allowed}
           risk_factors ==
               [k \in keys |->
                   CASE k = "trading_hours" -> {"Outside allowed hours"}
                     [] k = "position_limits" -> position_check.details
                     [] k = "loss_limits" -> loss_check.details
                     [] k = "volatility" -> volatility_check.details]
           risk_score == _calculate_risk_score(risk_profile, trade_request, risk_factors)
           is_allowed == Len(errors) = 0
       IN [is_allowed |-> is_allowed, risk_score |-> risk_score,
           warnings |-> warnings, errors |-> errors,
           suggested_quantity |-> IF ~is_allowed
                                  THEN _suggest_quantity(risk_profile, trade_request)
                                  ELSE NoQuantity,
           suggested_price |-> IF ~is_allowed
                               THEN _suggest_price(risk_profile, trade_request)
                               ELSE NoPrice,
           risk_factors |-> risk_factors]

\* the profiles RiskProfileCreate accepts, out of these field values
RiskProfiles ==
    {profile \in
        [max_position_size : {10000}, max_positions : {3, 10},
         daily_loss_limit : {1000}, weekly_loss_limit : {5000},
         monthly_loss_limit : {20000}, total_loss_limit : {50000},
         max_volatility_threshold : {20, 50},
         trading_hours_start : {Strftime(9, 0), Unpadded(9, 0)},
         trading_hours_end : {Strftime(17, 0), Unpadded(9, 30)},
         weekend_trading : BOOLEAN] : ValidRiskProfile(profile)}

\* a Wednesday and a Saturday, before, within and after office hours
Clocks == [weekday : {2, 5}, hour : {8, 10, 18}, minute : {0}]

\* quantities 0.1 and 1
RiskRequests ==
    [side : {BUY, SELL}, quantity : {RiskQtyScale \div 10, RiskQtyScale},
     price : {NoPrice, 50000}, order_type : {MARKET, LIMIT}]

\* the P&L of the account: the gains of the mock data, and losses beyond
\* the limits of every period
PnlSnapshots ==
    {[daily |-> daily_pnl, weekly |-> weekly_pnl,
      monthly |-> monthly_pnl, total |-> total_pnl],
     [daily |-> 0 - 1500, weekly |-> 0 - 8000,
      monthly |-> 0 - 25000, total |-> 0 - 60000]}

InitRisk ==
    /\ db = [sid \in StrategyIds |->
                [user_id |-> DbOwner(sid), type |-> DbType(sid),
                 config |-> IF sid = "s1" THEN GridConfig ELSE MRConfig,
                 is_active |-> TRUE]]
    /\ active_strategies = <<>>
    /\ tasks = [sid \in StrategyIds |-> 0]
    /\ updates = 0
    /\ ticks = 0
    /\ ret = Ret("", "init", "", {})
    /\ exchange_configs = <<>>
    /\ exchanges = <<>>
    /\ NoFactory
    /\ orders = <<>>
    /\ risk_checks = <<>>
    /\ \E profile \in RiskProfiles : risk_profiles = [u \in {"u1"} |-> profile]
    /\ clock \in Clocks
    /\ pnl_snapshot \in PnlSnapshots
    /\ accounts = NoAccounts

\* the response of check_trade_risk's except branch
RiskCheckError ==
    [is_allowed |-> FALSE, risk_score |-> 100, warnings |-> <<>>,
     errors |-> <<"Risk check error">>,
     suggested_quantity |-> NoQuantity, suggested_price |-> NoPrice,
     risk_factors |-> <<>>]

\* RiskService(db).check_trade_risk(user_id, trade_request); raised: the
\* database query of get_risk_profile raises
check_trade_risk(user_id, trade_request, raised) ==
    /\ Len(risk_checks) < MaxChecks
    /\ LET response == IF raised THEN RiskCheckError
                       ELSE CheckTradeRisk(risk_profiles, user_id,
                                           trade_request, clock)
       IN /\ risk_checks' = Append(risk_checks,
                 [user_id |-> user_id, request |-> trade_request,
                  raised |-> raised,
                  is_allowed |-> response.is_allowed, response |-> response])
          /\ ret' = Ret("check_trade_risk",
                        IF response.is_allowed THEN "allowed" ELSE "blocked", "", {})
    /\ UNCHANGED <<engineVars, exchange_configs, exchanges, orders,
                   risk_profiles, clock, pnl_snapshot, accounts, factoryVars>>

NextRisk ==
    \E user_id \in Users, trade_request \in RiskRequests, raised \in BOOLEAN :
        check_trade_risk(user_id, trade_request, raised)

SpecRisk == InitRisk /\ [][NextRisk]_vars

(***************************************************************************)
(* Specifications                                                          *)
(***************************************************************************)
\* the strategy engine under every interleaving of its callers and tasks
Next ==
    \/ \E sid \in StrategyIds, user \in Users : start_strategy(sid, user)
    \/ \E sid \in StrategyIds, user \in Users : stop_strategy(sid, user)
    \/ \E sid \in StrategyIds, user \in Users : pause_strategy(sid, user)
    \/ \E sid \in StrategyIds, user \in Users : resume_strategy(sid, user)
    \/ \E sid \in StrategyIds, user \in Users, n \in 1..Len(NewConfigs) :
          update_strategy_config(sid, user, NewConfigs[n])
    \/ \E sid \in StrategyIds, user \in Users : get_strategy_status(sid, user)
    \/ \E user \in Users : get_all_strategies_status(user)
    \/ \E sid \in StrategyIds, price \in MockPrices : _execute_strategy(sid, price)

Spec == Init /\ [][Next]_vars

(***************************************************************************)
(* The control endpoint POST /strategies/{strategy_id}/action              *)
(***************************************************************************)
\* the strategies table as the create endpoint fills it (is_active takes the
\* column default False) and as an update with is_active = true leaves it
InitControl ==
    /\ db \in {row \in [StrategyIds -> [user_id : Users, type : StrategyTypes,
                                        config : {GridConfig, MRConfig},
                                        is_active : BOOLEAN]] :
                 \A sid \in StrategyIds :
                    /\ row[sid].user_id = DbOwner(sid)
                    /\ row[sid].type = DbType(sid)
                    /\ row[sid].config = (IF sid = "s1" THEN GridConfig ELSE MRConfig)}
    /\ active_strategies = <<>>
    /\ tasks = [sid \in StrategyIds |-> 0]
    /\ updates = 0
    /\ ticks = 0
    /\ ret = Ret("", "init", "", {})
    /\ exchange_configs = <<>>
    /\ exchanges = <<>>
    /\ NoFactory
    /\ orders = <<>>
    /\ NoRiskGate

\* control_strategy(strategy_id, action) called by current_user: the row is
\* looked up, the manager is called, and start and stop store is_active on
\* success; the result is the HTTP status
control_strategy(sid, user, action) ==
    /\ action = "start" => LiveTasks < MaxTasks
    /\ LET request == {[strategy_id |-> sid, user_id |-> user]}
           strategy == db[sid]
           made == create_strategy(strategy.type, strategy.config, user)
           started == start(made.s)
           owned == Registered(sid) /\ Owns(active_strategies[sid], user)
       IN IF strategy.user_id # user
          THEN /\ ret' = Ret("control_strategy", "404", action, request)
               /\ UNCHANGED <<db, active_strategies, tasks>>
          ELSE CASE action = "start" ->
                    IF strategy.is_active /\ made.ok /\ started.ok
                    THEN /\ active_strategies' =
                                RegistryPut(active_strategies, sid, started.s)
                         /\ tasks' = [tasks EXCEPT ![sid] = @ + 1]
                         /\ db' = [db EXCEPT ![sid].is_active = TRUE]
                         /\ ret' = Ret("control_strategy", "200", action, request)
                    ELSE /\ ret' = Ret("control_strategy", "400", action, request)
                         /\ UNCHANGED <<db, active_strategies, tasks>>
                 [] action = "stop" ->
                    /\ active_strategies' =
                           IF owned
                           THEN RegistryDel(RegistryPut(active_strategies, sid,
                                               stop(active_strategies[sid])), sid)
                           ELSE active_strategies
                    /\ db' = IF Registered(sid) /\ ~owned THEN db
                             ELSE [db EXCEPT ![sid].is_active = FALSE]
                    /\ ret' = Ret("control_strategy",
                                  IF Registered(sid) /\ ~owned THEN "400" ELSE "200",
                                  action, request)
                    /\ UNCHANGED tasks
                 [] action = "pause" ->
                    /\ active_strategies' =
                           IF owned THEN [active_strategies EXCEPT ![sid] = pause(@)]
                           ELSE active_strategies
                    /\ ret' = Ret("control_strategy",
                                  IF owned THEN "200" ELSE "400", action, request)
                    /\ UNCHANGED <<db, tasks>>
                 [] OTHER ->
                    LET resumed == IF owned THEN resume(active_strategies[sid])
                                   ELSE [ok |-> FALSE, s |-> 0]
                    IN /\ active_strategies' =
                              IF owned
                              THEN [active_strategies EXCEPT ![sid] = resumed.s]
                              ELSE active_strategies
                       /\ ret' = Ret("control_strategy",
                                     IF resumed.ok THEN "200" ELSE "400",
                                     action, request)
                       /\ UNCHANGED <<db, tasks>>
    /\ UNCHANGED <<updates, ticks, gatewayVars>>

NextControl ==
    \/ \E sid \in StrategyIds, user \in Users,
          action \in {"start", "stop", "pause", "resume"} :
          control_strategy(sid, user, action)
    \/ \E sid \in StrategyIds, price \in MockPrices : _execute_strategy(sid, price)

SpecControl == InitControl /\ [][NextControl]_vars

\* the two paths on which an order can be placed: a strategy's signal and
\* the order endpoint
NextOrders ==
    \/ \E sid \in StrategyIds, user \in Users : start_strategy(sid, user)
    \/ \E sid \in StrategyIds, price \in MockPrices : _execute_strategy(sid, price)
    \/ \E user \in Users, exchange_type \in ExchangeTypeInputs,
          api_key \in ApiKeys, connected \in BOOLEAN :
          create_exchange(user, exchange_type, api_key, connected)
    \/ \E user \in Users, exchange_id \in 1..MaxExchangeConfigs,
          order_create \in OrderInputs, has_order_id \in BOOLEAN :
          place_order(user, exchange_id, order_create, has_order_id)

SpecOrders == Init /\ [][NextOrders]_vars

(***************************************************************************)
(* One strategy instance, started and then driven call by call: execute on *)
(* a tick, update_config, reset_grid                                       *)
(***************************************************************************)
\* the configs the instance is started with
GridConfigCapped ==
    [base_price |-> 50000, grid_spacing |-> 1000, num_levels |-> 1,
     base_amount |-> 100, trigger_threshold |-> 100, max_position |-> 1000]
GridConfigWide ==
    [base_price |-> 50000, grid_spacing |-> 1000, num_levels |-> 1,
     base_amount |-> 100, trigger_threshold |-> 1000]
MRConfigCapped ==
    [short_period |-> 1, long_period |-> 2, buy_threshold |-> 0 - 20,
     sell_threshold |-> 20, base_amount |-> 100, max_position |-> 1000]

InstanceConfigs(type) ==
    IF type = GRID THEN {GridConfig, GridConfigCapped, GridConfigWide}
    ELSE {MRConfig, MRConfigCapped}

\* market_data['price'] of the ticks
TickPrices(type) ==
    IF type = GRID THEN {49000, 50000, 50500, 51000}
    ELSE {45000, 47000, 49000, 51000}

Instance == "s1"

InitInstance ==
    /\ db = [sid \in StrategyIds |->
                [user_id |-> DbOwner(sid), type |-> DbType(sid),
                 config |-> IF sid = "s1" THEN GridConfig ELSE MRConfig,
                 is_active |-> TRUE]]
    /\ \E type \in StrategyTypes :
          \E config \in InstanceConfigs(type) :
             active_strategies =
                 [sid \in {Instance} |->
                     start(create_strategy(type, config, "u1").s).s]
    /\ tasks = [sid \in StrategyIds |-> 0]
    /\ updates = 0
    /\ ticks = 0
    /\ ret = Ret("start", "true", "", {})
    /\ exchange_configs = <<>>
    /\ exchanges = <<>>
    /\ NoFactory
    /\ orders = <<>>
    /\ NoRiskGate

\* strategy.execute(market_data)
InstanceExecute(price) ==
    /\ ticks < MaxExecutes
    /\ LET r == execute(active_strategies[Instance], price, ticks + 1)
       IN /\ active_strategies' = [active_strategies EXCEPT ![Instance] = r.s]
          /\ ret' = Ret("execute", r.signal,
                        IF r.signal \in {BUY, SELL} THEN ToString(price) ELSE "",
                        {})
    /\ ticks' = ticks + 1
    /\ UNCHANGED <<db, tasks, updates, gatewayVars>>

\* strategy.update_config(new_config)
InstanceUpdateConfig(new_config) ==
    /\ updates < MaxUpdates
    /\ LET u == update_config(active_strategies[Instance], new_config)
       IN /\ active_strategies' = [active_strategies EXCEPT ![Instance] = u.s]
          /\ ret' = Ret("update_config", IF u.ok THEN "true" ELSE "false", "", {})
    /\ updates' = updates + 1
    /\ UNCHANGED <<db, tasks, ticks, gatewayVars>>

\* strategy.reset_grid()
InstanceResetGrid ==
    /\ active_strategies[Instance].type = GRID
    /\ active_strategies' =
           [active_strategies EXCEPT ![Instance] = reset_grid(@)]
    /\ ret' = Ret("reset_grid", "true", "", {})
    /\ UNCHANGED <<db, tasks, updates, ticks, gatewayVars>>

NextInstance ==
    \/ \E price \in TickPrices(active_strategies[Instance].type) :
          InstanceExecute(price)
    \/ \E n \in 1..Len(NewConfigs) : InstanceUpdateConfig(NewConfigs[n])
    \/ InstanceResetGrid

SpecInstance == InitInstance /\ [][NextInstance]_vars

\* updates of the ladder's parameters: two valid ones and an invalid one
LadderUpdates ==
    <<[grid_spacing |-> 2000],
      [base_price |-> 51000, num_levels |-> 2],
      [grid_spacing |-> 0]>>

\* a started instance whose config is updated between ticks
NextLadder ==
    \/ \E price \in TickPrices(active_strategies[Instance].type) :
          InstanceExecute(price)
    \/ \E n \in 1..Len(LadderUpdates) : InstanceUpdateConfig(LadderUpdates[n])

SpecLadder == InitInstance /\ [][NextLadder]_vars

(***************************************************************************)
(* One strategy instance built from a config and started                   *)
(***************************************************************************)
\* the grid configs an instance is built from, valid and invalid
StartConfigs ==
    [base_price : {2, 3, 50000}, grid_spacing : {0, 1, 1000},
     num_levels : 0..MaxLevels, base_amount : {0, 100}]

InitStart ==
    /\ db = [sid \in StrategyIds |->
                [user_id |-> DbOwner(sid), type |-> DbType(sid),
                 config |-> IF sid = "s1" THEN GridConfig ELSE MRConfig,
                 is_active |-> TRUE]]
    /\ \E config \in StartConfigs :
          active_strategies =
              [sid \in {Instance} |-> create_strategy(GRID, config, "u1").s]
    /\ tasks = [sid \in StrategyIds |-> 0]
    /\ updates = 0
    /\ ticks = 0
    /\ ret = Ret("create_strategy", "strategy", "", {})
    /\ exchange_configs = <<>>
    /\ exchanges = <<>>
    /\ NoFactory
    /\ orders = <<>>
    /\ NoRiskGate

\* strategy.start()
InstanceStart ==
    /\ LET r == start(active_strategies[Instance])
       IN /\ active_strategies' = [active_strategies EXCEPT ![Instance] = r.s]
          /\ ret' = Ret("start", IF r.ok THEN "true" ELSE "false", "", {})
    /\ UNCHANGED <<db, tasks, updates, ticks, gatewayVars>>

NextStart == InstanceStart

SpecStart == InitStart /\ [][NextStart]_vars

(***************************************************************************)
(* The indicator functions of one Momentum instance                        *)
(***************************************************************************)
MomentumPrices == {49000, 50000, 52000}

Histories == UNION {[1..n -> MomentumPrices] : n \in 0..MaxHistory}

MomentumConfigs ==
    {config \in [rsi_period : 1..MaxHistory, macd_fast : {1}, macd_slow : {2},
                  macd_signal : {1}, rsi_oversold : {30}, rsi_overbought : {70},
                  base_amount : {100}] : MomentumValidateConfig(config)}

\* the gateway and the engine are not part of these specifications
NoEngine ==
    /\ db = [sid \in StrategyIds |->
                [user_id |-> DbOwner(sid), type |-> DbType(sid),
                 config |-> IF sid = "s1" THEN GridConfig ELSE MRConfig,
                 is_active |-> TRUE]]
    /\ tasks = [sid \in StrategyIds |-> 0]
    /\ updates = 0
    /\ ticks = 0
    /\ exchange_configs = <<>>
    /\ exchanges = <<>>
    /\ NoFactory
    /\ orders = <<>>
    /\ NoRiskGate

InitRsi ==
    /\ NoEngine
    /\ \E config \in MomentumConfigs, history \in Histories :
          active_strategies =
              [sid \in {Instance} |->
                  [NewMomentumStrategy(config, "u1")
                      EXCEPT !.price_history = history]]
    /\ ret = Ret("__init__", "none", "", {})

\* self._calculate_rsi() on the instance's price history
CalculateRsi ==
    /\ LET rsi == MomentumCalculateRsi(active_strategies[Instance].price_history,
                                       active_strategies[Instance].config)
       IN ret' = Ret("_calculate_rsi",
                     IF rsi.available THEN "rsi" ELSE "none", "", {rsi})
    /\ UNCHANGED <<db, active_strategies, tasks, updates, ticks, gatewayVars>>

NextRsi == CalculateRsi

SpecRsi == InitRsi /\ [][NextRsi]_vars

\* the arguments of _generate_signal: RSI values and MACD readings
RsiInputs == {NoRsi} \cup {Rsi(num, 1) : num \in {0, 25, 30, 50, 70, 75, 100}}
MacdInputs == {NotANumber, 0 - 5, 0, 5}

SignalConfigs ==
    {DictUpdate([rsi_period |-> 14, macd_fast |-> 12, macd_slow |-> 26,
                 macd_signal |-> 9, rsi_oversold |-> 30, rsi_overbought |-> 70,
                 base_amount |-> 100], extra) :
        extra \in {<<>>, [max_position |-> 1000], [max_position |-> NotANumber]}}

InitSignal ==
    /\ NoEngine
    /\ \E config \in SignalConfigs, trend \in {"up", "down", None},
          position \in {0 - (1000 * QtyScale), 0 - 1000, 0, 1000, 1000 * QtyScale} :
          /\ MomentumValidateConfig(config)
          /\ active_strategies =
                 [sid \in {Instance} |->
                     [NewMomentumStrategy(config, "u1")
                         EXCEPT !.status = ACTIVE, !.is_running = TRUE,
                                !.trend_direction = trend,
                                !.current_position = position]]
    /\ ret = Ret("start", "true", "", {})

\* self._generate_signal(rsi, macd, macd_signal)
GenerateSignal(rsi, macd, macd_signal) ==
    /\ ret' = Ret("_generate_signal",
                  MomentumGenerateSignal(active_strategies[Instance],
                                         rsi, macd, macd_signal),
                  "", {[rsi |-> rsi, macd |-> macd, macd_signal |-> macd_signal]})
    /\ UNCHANGED <<db, active_strategies, tasks, updates, ticks, gatewayVars>>

NextSignal ==
    \E rsi \in RsiInputs, macd \in MacdInputs, macd_signal \in MacdInputs :
        GenerateSignal(rsi, macd, macd_signal)

SpecSignal == InitSignal /\ [][NextSignal]_vars

(***************************************************************************)
(* ExchangeFactory and the adapters' connections, one step per await       *)
(***************************************************************************)
MaxAdapters == 2
MaxCalls == 4
MaxCreates == 2    \* rows the gateway's create_exchange adds in one run

\* the tasks of the event loop that call the gateway
Callers == {"c1", "c2"}

\* the arguments of the gateway calls
FactoryApiKeys == {<<"AAAAAAAA", "1">>, <<"BBBBBBBB", "1">>}
ExchangeUpdates ==
    {[name |-> "n1"],
     [api_secret |-> "s2"],
     [api_key |-> <<"BBBBBBBB", "1">>, api_secret |-> "s2"]}
WsSymbols == {"btcusdt"}

\* BaseExchange.__init__ and BinanceExchange.__init__: session is TRUE for
\* an open aiohttp.ClientSession, FALSE for None; ws_connections holds the
\* symbols with an open WebSocket
NewAdapter(exchange_type, api_key, api_secret) ==
    [exchange_type |-> exchange_type, api_key |-> api_key,
     api_secret |-> api_secret, is_connected |-> FALSE, session |-> FALSE,
     ws_connections |-> {}]

\* connect() up to the await of the ping request
ConnectBegin(exchange) == [exchange EXCEPT !.session = TRUE]

\* connect() after the ping: ok is "response.status == 200"
ConnectEnd(exchange, ok) ==
    IF ok THEN [exchange EXCEPT !.is_connected = TRUE] ELSE exchange

\* disconnect(): raised_at = "" when nothing raises; otherwise the loop over
\* ws_connections.values() raises after the WebSocket of raised_at was
\* closed and _handle_price_feed's finally removed it from the dict
Disconnect(exchange, raised_at) ==
    IF raised_at = ""
    THEN [exchange EXCEPT !.session = FALSE, !.ws_connections = {},
                          !.is_connected = FALSE]
    ELSE [exchange EXCEPT !.session = FALSE,
                          !.ws_connections = @ \ {raised_at}]

\* a registration that does not look at the outcome of connect()
RegisterAlways(reg, exchange_id, exchange, connected) ==
    RegistryPut(reg, exchange_id, exchange)

\* create_exchange after connect(): "self.exchanges[exchange_id] = exchange"
\* under "if await exchange.connect()"
RegisterConnected(reg, exchange_id, exchange, connected) ==
    IF connected THEN RegistryPut(reg, exchange_id, exchange) ELSE reg

\* the frame of a task that runs no gateway coroutine; in the frame of
\* update_exchange, replaced is the adapter that was registered for the row
\* when the call began (0: none), which the code does not keep
Idle ==
    [op |-> "", pc |-> "", exchange_id |-> <<>>, exchange |-> 0,
     config |-> <<>>, replaced |-> 0, size |-> 0, visited |-> {},
     prices |-> {}]

InitFactory ==
    /\ db = [sid \in StrategyIds |->
                [user_id |-> DbOwner(sid), type |-> DbType(sid),
                 config |-> IF sid = "s1" THEN GridConfig ELSE MRConfig,
                 is_active |-> TRUE]]
    /\ active_strategies = <<>>
    /\ tasks = [sid \in StrategyIds |-> 0]
    /\ updates = 0
    /\ ticks = 0
    /\ ret = Ret("", "init", "", {})
    /\ exchange_configs = <<>>
    /\ exchanges = <<>>
    /\ orders = <<>>
    /\ NoRiskGate
    /\ adapters = <<>>
    /\ coroutines = [c \in Callers |-> Idle]
    /\ calls = 0
    /\ feeds = NoFeeds

\* task c is free to make a call; the tasks are interchangeable, and the
\* second one is taken only while the first one runs a coroutine
CanCall(c) ==
    /\ calls < MaxCalls
    /\ coroutines[c].op = ""
    /\ c = "c1" \/ coroutines["c1"].op # ""

\* ExchangeFactory.create_exchange up to "await exchange.connect()", called
\* inside the service call of frame with the adapter objects heap
create_exchange_enter(c, frame, heap, exchange_type, api_key, api_secret) ==
    IF exchange_type \notin ExchangeType
    THEN /\ adapters' = heap
         /\ coroutines' = [coroutines EXCEPT ![c] = Idle]
         /\ ret' = Ret(frame.op,
                       IF frame.op = "update_exchange" THEN "dict" ELSE "none",
                       "", {})
    ELSE /\ adapters' = Append(heap, ConnectBegin(NewAdapter(exchange_type,
                                                  api_key, api_secret)))
         /\ coroutines' =
               [coroutines EXCEPT ![c] =
                   [frame EXCEPT !.pc = "connect",
                                 !.exchange = Len(heap) + 1,
                                 !.exchange_id =
                                     ExchangeInstanceId(exchange_type, api_key)]]
         /\ UNCHANGED ret

\* ExchangeService.create_exchange up to the await of connect()
create_exchange_call(c, exchange_type, api_key, api_secret) ==
    /\ CanCall(c)
    /\ calls' = calls + 1
    /\ UNCHANGED feeds
    /\ Len(exchange_configs) < MaxCreates
    /\ Len(adapters) < MaxAdapters
    /\ exchange_configs' =
          Append(exchange_configs,
                 [user_id |-> "u1", exchange_type |-> exchange_type,
                  name |-> "n1", api_key |-> api_key, api_secret |-> api_secret])
    /\ create_exchange_enter(c, [Idle EXCEPT !.op = "create_exchange"],
                             adapters, exchange_type, api_key, api_secret)
    /\ UNCHANGED <<engineVars, exchanges, orders, riskVars>>

\* connect() returns into ExchangeFactory.create_exchange, which returns
\* into ExchangeService.create_exchange or update_exchange
connect_returns(c, ok) ==
    /\ coroutines[c].pc = "connect"
    /\ LET frame == coroutines[c]
       IN /\ adapters' = [adapters EXCEPT ![frame.exchange] = ConnectEnd(@, ok)]
          /\ exchanges' = RegisterConnected(exchanges, frame.exchange_id,
                                            frame.exchange, ok)
          /\ coroutines' = [coroutines EXCEPT ![c] = Idle]
          /\ ret' = Ret(frame.op,
                        IF ok \/ frame.op = "update_exchange"
                        THEN "dict" ELSE "none",
                        "", {})
    /\ UNCHANGED calls
    /\ UNCHANGED feeds
    /\ UNCHANGED <<engineVars, exchange_configs, orders, riskVars>>

\* ExchangeService.update_exchange up to its first await; exchange_id is the
\* id of the row, exchange_update the fields that are set
update_exchange_call(c, exchange_id, exchange_update) ==
    /\ CanCall(c)
    /\ calls' = calls + 1
    /\ UNCHANGED feeds
    /\ Len(adapters) < MaxAdapters
    /\ IF exchange_id \notin 1..Len(exchange_configs)
       THEN /\ ret' = Ret("update_exchange", "none", "", {})
            /\ UNCHANGED <<exchange_configs, adapters, coroutines>>
       ELSE LET row == exchange_configs[exchange_id]
                exchange == DictUpdate(row, exchange_update)
                row_id == ExchangeInstanceId(row.exchange_type, row.api_key)
                frame == [Idle EXCEPT
                             !.op = "update_exchange",
                             !.config = <<exchange>>,
                             !.replaced = IF row_id \in DOMAIN exchanges
                                          THEN exchanges[row_id] ELSE 0]
            IN /\ exchange_configs' =
                     [exchange_configs EXCEPT ![exchange_id] = exchange]
               /\ IF ~("api_key" \in DOMAIN exchange_update
                        \/ "api_secret" \in DOMAIN exchange_update)
                  THEN /\ ret' = Ret("update_exchange", "dict", "", {})
                       /\ UNCHANGED <<adapters, coroutines>>
                  ELSE LET old_exchange_id ==
                               ExchangeInstanceId(exchange.exchange_type,
                                                  exchange.api_key)
                       IN IF old_exchange_id \in DOMAIN exchanges
                          THEN /\ coroutines' =
                                     [coroutines EXCEPT ![c] =
                                         [frame EXCEPT
                                             !.pc = "disconnect",
                                             !.exchange_id = old_exchange_id,
                                             !.exchange = exchanges[old_exchange_id]]]
                               /\ UNCHANGED ret
                               /\ UNCHANGED adapters
                          ELSE create_exchange_enter(c, frame,
                                   adapters, exchange.exchange_type,
                                   exchange.api_key, exchange.api_secret)
    /\ UNCHANGED <<engineVars, exchanges, orders, riskVars>>

\* ExchangeFactory.remove_exchange up to "await exchange.disconnect()"
remove_exchange_call(c, exchange_id) ==
    /\ CanCall(c)
    /\ calls' = calls + 1
    /\ UNCHANGED feeds
    /\ IF exchange_id \in DOMAIN exchanges
       THEN /\ coroutines' =
                  [coroutines EXCEPT ![c] =
                      [Idle EXCEPT !.op = "remove_exchange",
                                   !.pc = "disconnect",
                                   !.exchange_id = exchange_id,
                                   !.exchange = exchanges[exchange_id]]]
            /\ UNCHANGED ret
       ELSE /\ ret' = Ret("remove_exchange", "false", "", {})
            /\ UNCHANGED coroutines
    /\ UNCHANGED <<engineVars, exchange_configs, exchanges, adapters, orders,
                   riskVars>>

\* disconnect() returns into ExchangeFactory.remove_exchange, which deletes
\* the entry (a KeyError when another task deleted it makes it return
\* False) and returns into its caller; update_exchange goes on into
\* create_exchange
disconnect_returns(c, raised_at) ==
    /\ coroutines[c].pc = "disconnect"
    /\ LET frame == coroutines[c]
           present == frame.exchange_id \in DOMAIN exchanges
           heap == [adapters EXCEPT ![frame.exchange] = Disconnect(@, raised_at)]
       IN /\ raised_at \in {""} \cup adapters[frame.exchange].ws_connections
          /\ exchanges' = IF present THEN RegistryDel(exchanges, frame.exchange_id)
                          ELSE exchanges
          /\ IF frame.op = "remove_exchange"
             THEN /\ adapters' = heap
                  /\ coroutines' = [coroutines EXCEPT ![c] = Idle]
                  /\ ret' = Ret("remove_exchange",
                                IF present THEN "true" ELSE "false",
                                "", {})
             ELSE create_exchange_enter(c, frame, heap,
                      frame.config[1].exchange_type, frame.config[1].api_key,
                      frame.config[1].api_secret)
    /\ UNCHANGED calls
    /\ UNCHANGED feeds
    /\ UNCHANGED <<engineVars, exchange_configs, orders, riskVars>>

\* ExchangeFactory.subscribe_to_symbol; ok is the outcome of
\* websockets.connect
subscribe_to_symbol(exchange_id, symbol, ok) ==
    /\ calls < MaxCalls
    /\ calls' = calls + 1
    /\ UNCHANGED feeds
    /\ IF exchange_id \in DOMAIN exchanges /\ ok
       THEN /\ adapters' = [adapters EXCEPT ![exchanges[exchange_id]].ws_connections
                                               = @ \cup {symbol}]
            /\ ret' = Ret("subscribe_to_symbol", "true", "", {})
       ELSE /\ ret' = Ret("subscribe_to_symbol", "false", "", {})
            /\ UNCHANGED adapters
    /\ UNCHANGED <<engineVars, exchange_configs, exchanges, orders, riskVars,
                   coroutines>>

\* the RuntimeError of a dict iterator whose dict changed: its size differs
\* from the size at the start of the loop, or entries are left after as many
\* items as that size were produced
IterationRaises(frame, reg) ==
    \/ Cardinality(DOMAIN reg) # frame.size
    \/ DOMAIN reg \ frame.visited # {} /\ Cardinality(frame.visited) = frame.size

\* get_price_from_all_exchanges up to the await of the first get_price
get_price_from_all_exchanges_call(c) ==
    /\ CanCall(c)
    /\ calls' = calls + 1
    /\ UNCHANGED feeds
    /\ IF DOMAIN exchanges = {}
       THEN /\ ret' = Ret("get_price_from_all_exchanges", "map", "", {})
            /\ UNCHANGED coroutines
       ELSE /\ \E exchange_id \in DOMAIN exchanges :
                  coroutines' =
                      [coroutines EXCEPT ![c] =
                          [Idle EXCEPT !.op = "get_price_from_all_exchanges",
                                       !.pc = "get_price",
                                       !.exchange_id = exchange_id,
                                       !.exchange = exchanges[exchange_id],
                                       !.size = Cardinality(DOMAIN exchanges),
                                       !.visited = {exchange_id}]]
            /\ UNCHANGED ret
    /\ UNCHANGED <<engineVars, exchange_configs, exchanges, adapters, orders,
                   riskVars>>

\* get_price returns into the loop of get_price_from_all_exchanges;
\* price_data tells whether it returned a PriceData or None
get_price_returns(c, price_data) ==
    /\ coroutines[c].pc = "get_price"
    /\ LET frame == coroutines[c]
           prices == IF price_data THEN frame.prices \cup {frame.exchange_id}
                     ELSE frame.prices
       IN IF IterationRaises(frame, exchanges)
          THEN /\ coroutines' = [coroutines EXCEPT ![c] = Idle]
               /\ ret' = Ret("get_price_from_all_exchanges", "raised", "", {})
          ELSE IF DOMAIN exchanges \ frame.visited = {}
          THEN /\ coroutines' = [coroutines EXCEPT ![c] = Idle]
               /\ ret' = Ret("get_price_from_all_exchanges", "map", "",
                             {[exchange_id |-> h, exchange |-> 0] : h \in prices})
          ELSE /\ \E exchange_id \in DOMAIN exchanges \ frame.visited :
                     coroutines' =
                         [coroutines EXCEPT ![c] =
                             [frame EXCEPT !.exchange_id = exchange_id,
                                           !.exchange = exchanges[exchange_id],
                                           !.visited = @ \cup {exchange_id},
                                           !.prices = prices]]
               /\ UNCHANGED ret
    /\ UNCHANGED calls
    /\ UNCHANGED feeds
    /\ UNCHANGED <<engineVars, exchange_configs, exchanges, adapters, orders,
                   riskVars>>

NextFactory ==
    \/ \E c \in Callers, exchange_type \in ExchangeTypeInputs,
          api_key \in FactoryApiKeys :
          create_exchange_call(c, exchange_type, api_key, "s1")
    \/ \E c \in Callers, ok \in BOOLEAN : connect_returns(c, ok)
    \/ \E c \in Callers, exchange_id \in 1..MaxExchangeConfigs,
          exchange_update \in ExchangeUpdates :
          update_exchange_call(c, exchange_id, exchange_update)
    \/ \E c \in Callers, api_key \in FactoryApiKeys :
          remove_exchange_call(c, ExchangeInstanceId("binance", api_key))
    \/ \E c \in Callers, raised_at \in {""} \cup WsSymbols :
          disconnect_returns(c, raised_at)
    \/ \E api_key \in FactoryApiKeys, symbol \in WsSymbols, ok \in BOOLEAN :
          subscribe_to_symbol(ExchangeInstanceId("binance", api_key), symbol, ok)
    \/ \E c \in Callers : get_price_from_all_exchanges_call(c)
    \/ \E c \in Callers, price_data \in BOOLEAN : get_price_returns(c, price_data)

SpecFactory == InitFactory /\ [][NextFactory]_vars

(***************************************************************************)
(* One adapter: the request operations                                     *)
(***************************************************************************)
\* the public operations of an adapter that make one HTTP request
AdapterOperations ==
    {"get_account_info", "get_balances", "get_symbols", "get_price",
     "get_order_book", "cancel_order", "get_order", "get_open_orders",
     "get_trades"}

\* logger.error(f"Error making request to Binance: {e}") in _make_request
RequestError == "Error making request"

\* class OrderStatus(Enum): the values OrderStatus(...) accepts
OrderStatus ==
    {"pending", "filled", "cancelled", "rejected", "partially_filled"}

\* str.lower() on the status words of the two exchanges
Lower(status) ==
    CASE status = "NEW" -> "new"
      [] status = "PARTIALLY_FILLED" -> "partially_filled"
      [] status = "FILLED" -> "filled"
      [] status = "New" -> "new"
      [] status = "PartiallyFilled" -> "partiallyfilled"
      [] status = "Filled" -> "filled"
      [] OTHER -> status

\* the status an exchange reports for an order of origQty of which
\* executedQty is executed (Bybit: qty, cumExecQty, orderStatus)
ExchangeStatus(exchange_type, origQty, executedQty) ==
    IF exchange_type = "binance"
    THEN (IF executedQty = 0 THEN "NEW"
          ELSE IF executedQty < origQty THEN "PARTIALLY_FILLED" ELSE "FILLED")
    ELSE (IF executedQty = 0 THEN "New"
          ELSE IF executedQty < origQty THEN "PartiallyFilled" ELSE "Filled")

\* the order records an exchange answers with: 0 <= executedQty <= origQty
OrderData(exchange_type) ==
    {[origQty |-> origQty, executedQty |-> executedQty,
      status |-> ExchangeStatus(exchange_type, origQty, executedQty)] :
        origQty \in 1..2, executedQty \in 0..2} \
    {[origQty |-> 1, executedQty |-> 2,
      status |-> ExchangeStatus(exchange_type, 1, 2)]}

\* the answers to a request: no record, one record or two
Responses(exchange_type) ==
    {<<>>} \cup {<<order_data>> : order_data \in OrderData(exchange_type)}
           \cup {<<order_data, [origQty |-> 2, executedQty |-> 1,
                                status |-> ExchangeStatus(exchange_type, 2, 1)]>> :
                    order_data \in OrderData(exchange_type)}

\* the variant of OrderFromResponse that reports the whole quantity as
\* remaining
OrderFromResponseUnfilled(order_data) ==
    [quantity |-> order_data.origQty,
     status |-> Lower(order_data.status),
     filled_quantity |-> order_data.executedQty,
     remaining_quantity |-> order_data.origQty]

\* Order(...) in get_order and get_open_orders
OrderFromResponse(order_data) ==
    [quantity |-> order_data.origQty,
     status |-> Lower(order_data.status),
     filled_quantity |-> order_data.executedQty,
     remaining_quantity |-> order_data.origQty - order_data.executedQty]

\* Order(...) in place_order
PlacedOrder(quantity) ==
    [quantity |-> quantity, status |-> "pending", filled_quantity |-> 0,
     remaining_quantity |-> quantity]

\* one public operation of an adapter: failed tells whether the HTTP request
\* raised, response is the exchange's answer otherwise.  The result is the
\* returned kind (v), the Orders returned (snap) and whether _make_request
\* logged an error (log).
AdapterRequest(exchange_type, operation, symbol, failed, response) ==
    LET unsent(v) == [v |-> v, log |-> "", snap |-> {}]
        sent(v, snap) ==
            [v |-> v, log |-> IF failed THEN RequestError ELSE "", snap |-> snap]
        listed == IF exchange_type = "bybit"
                  THEN {i \in DOMAIN response :
                           response[i].status \in {"New", "PartiallyFilled"}}
                  ELSE DOMAIN response
    IN CASE operation \in {"get_account_info", "get_balances", "get_symbols"} ->
              IF failed THEN sent("raised", {}) ELSE sent("value", {})
         [] operation = "get_price" ->
              IF ~validate_symbol(symbol) THEN unsent("none")
              ELSE IF failed \/ response = <<>> THEN sent("none", {})
              ELSE sent("value", {})
         [] operation = "get_order_book" ->
              IF ~validate_symbol(symbol) THEN unsent("empty")
              ELSE IF failed THEN sent("empty", {}) ELSE sent("value", {})
         [] operation = "cancel_order" ->
              IF ~validate_symbol(symbol) THEN unsent("false")
              ELSE IF failed \/ response = <<>> THEN sent("false", {})
              ELSE sent("true", {})
         [] operation = "get_order" ->
              IF ~validate_symbol(symbol) THEN unsent("none")
              ELSE IF failed \/ response = <<>> THEN sent("none", {})
              ELSE IF Lower(response[1].status) \notin OrderStatus
              THEN sent("none", {})
              ELSE sent("order", {OrderFromResponse(response[1])})
         [] operation = "get_open_orders" ->
              IF symbol # <<>> /\ ~validate_symbol(symbol) THEN unsent("empty")
              ELSE IF failed THEN sent("empty", {})
              ELSE IF \E i \in listed : Lower(response[i].status) \notin OrderStatus
              THEN sent("empty", {})
              ELSE sent(IF listed = {} THEN "empty" ELSE "value",
                        {OrderFromResponse(response[i]) : i \in listed})
         [] OTHER ->
              IF ~validate_symbol(symbol) THEN unsent("empty")
              ELSE IF failed \/ response = <<>> THEN sent("empty", {})
              ELSE sent("value", {})

(***************************************************************************)
(* One adapter: place_order                                                *)
(***************************************************************************)
\* the arguments of adapter.place_order
AdapterOrderInputs ==
    [symbol : Symbols \cup {<<>>}, side : {BUY, SELL},
     order_type : {MARKET, LIMIT}, quantity : {0 - 1, 0, 1},
     price : {NoPrice, 0 - 5, 0, 50000}]

\* one adapter, created by create_exchange and connected
InitAdapter ==
    /\ db = [sid \in StrategyIds |->
                [user_id |-> DbOwner(sid), type |-> DbType(sid),
                 config |-> IF sid = "s1" THEN GridConfig ELSE MRConfig,
                 is_active |-> TRUE]]
    /\ active_strategies = <<>>
    /\ tasks = [sid \in StrategyIds |-> 0]
    /\ updates = 0
    /\ ticks = 0
    /\ ret = Ret("", "init", "", {})
    /\ \E exchange_type \in ExchangeType, api_key \in FactoryApiKeys :
          /\ exchange_configs =
                <<[user_id |-> "u1", exchange_type |-> exchange_type,
                   name |-> "n1", api_key |-> api_key, api_secret |-> "s1"]>>
          /\ exchanges = [h \in {ExchangeInstanceId(exchange_type, api_key)} |-> 1]
          /\ adapters = <<ConnectEnd(ConnectBegin(NewAdapter(exchange_type,
                                         api_key, "s1")), TRUE)>>
    /\ orders = <<>>
    /\ NoRiskGate
    /\ coroutines = [c \in Callers |-> Idle]
    /\ calls = 0
    /\ feeds = NoFeeds

\* BinanceExchange.place_order / BybitExchange.place_order of the adapter
\* registered as exchange_id
adapter_place_order(exchange_id, request, has_order_id) ==
    /\ Len(orders) < MaxOrders
    /\ exchange_id \in DOMAIN exchanges
    /\ LET placed == AdapterPlaceOrder(request.symbol, request.side,
                                       request.order_type, request.quantity,
                                       request.price, has_order_id)
       IN /\ orders' = Append(orders,
                 [user_id |-> "u1", exchange |-> exchange_id,
                  request |-> request, sent |-> placed.sent,
                  order |-> placed.order])
          /\ ret' = Ret("place_order", IF placed.order THEN "order" ELSE "none",
                        "", IF placed.order
                            THEN {PlacedOrder(request.quantity)} ELSE {})
    /\ UNCHANGED <<engineVars, exchange_configs, exchanges, riskVars, factoryVars>>

\* one of the request operations of the adapter registered as exchange_id
adapter_request(exchange_id, operation, symbol, failed, response) ==
    /\ exchange_id \in DOMAIN exchanges
    /\ LET out == AdapterRequest(adapters[exchanges[exchange_id]].exchange_type,
                                 operation, symbol, failed, response)
       IN ret' = Ret(operation, out.v, out.log, out.snap)
    /\ UNCHANGED <<engineVars, gatewayVars>>

NextAdapter ==
    \E exchange_id \in DOMAIN exchanges, request \in AdapterOrderInputs,
       has_order_id \in BOOLEAN :
       adapter_place_order(exchange_id, request, has_order_id)

SpecAdapter == InitAdapter /\ [][NextAdapter]_vars

\* the orders placed between the requests
RequestOrderInputs ==
    [symbol : {<<"B", "T", "C", "U", "S", "D", "T">>}, side : {BUY},
     order_type : {LIMIT}, quantity : {0, 1, 2}, price : {50000}]

NextRequests ==
    \/ \E exchange_id \in DOMAIN exchanges, request \in RequestOrderInputs,
          has_order_id \in BOOLEAN :
          adapter_place_order(exchange_id, request, has_order_id)
    \/ \E exchange_id \in DOMAIN exchanges, operation \in AdapterOperations,
          symbol \in Symbols \cup {<<>>}, failed \in BOOLEAN :
          \E response \in Responses(adapters[exchanges[exchange_id]].exchange_type) :
             adapter_request(exchange_id, operation, symbol, failed, response)

SpecRequests == InitAdapter /\ [][NextRequests]_vars

(***************************************************************************)
(* One adapter: the WebSocket price feeds                                  *)
(***************************************************************************)
MaxSockets == 2   \* websockets opened in one run

\* the symbols subscribed to (all pass validate_symbol)
FeedSymbols == {"BTCUSDT"}

\* str.lower() on a symbol
SymbolLower(symbol) == IF symbol = "BTCUSDT" THEN "btcusdt" ELSE symbol

\* the key of a symbol in ws_connections and price_callbacks:
\* Binance uses symbol.lower(), Bybit the symbol as given
WsKey(exchange_type, symbol) ==
    IF exchange_type = "binance" THEN SymbolLower(symbol) ELSE symbol

\* a caller that runs neither subscribe_price_feed nor unsubscribe_price_feed
FeedIdle == [op |-> "", pc |-> "", symbol |-> "", websocket |-> 0]

\* d[key] = value on a dict
DictPut(d, key, value) ==
    [k \in DOMAIN d \cup {key} |-> IF k = key THEN value ELSE d[k]]

\* del d[key] on a dict that has the key
DictDel(d, key) == [k \in DOMAIN d \ {key} |-> d[k]]

\* one connected adapter with no subscription
InitFeed ==
    /\ db = [sid \in StrategyIds |->
                [user_id |-> DbOwner(sid), type |-> DbType(sid),
                 config |-> IF sid = "s1" THEN GridConfig ELSE MRConfig,
                 is_active |-> TRUE]]
    /\ active_strategies = <<>>
    /\ tasks = [sid \in StrategyIds |-> 0]
    /\ updates = 0
    /\ ticks = 0
    /\ ret = Ret("", "init", "", {})
    /\ \E exchange_type \in ExchangeType :
          /\ exchange_configs =
                <<[user_id |-> "u1", exchange_type |-> exchange_type,
                   name |-> "n1", api_key |-> <<"AAAAAAAA", "1">>,
                   api_secret |-> "s1"]>>
          /\ exchanges =
                [h \in {ExchangeInstanceId(exchange_type, <<"AAAAAAAA", "1">>)} |-> 1]
          /\ adapters = <<ConnectEnd(ConnectBegin(NewAdapter(exchange_type,
                                         <<"AAAAAAAA", "1">>, "s1")), TRUE)>>
    /\ orders = <<>>
    /\ NoRiskGate
    /\ coroutines = [c \in Callers |-> Idle]
    /\ calls = 0
    /\ feeds = [NoFeeds EXCEPT !.frames = [c \in Callers |-> FeedIdle]]

\* the adapter's dicts and sockets change to new_feeds; the adapter record
\* keeps the keys of ws_connections
SetFeeds(new_feeds) ==
    /\ feeds' = new_feeds
    /\ adapters' = [adapters EXCEPT
                       ![1].ws_connections = DOMAIN new_feeds.ws_connections]

\* caller c returns v from its call
FeedReturn(c, new_feeds, v) ==
    /\ SetFeeds([new_feeds EXCEPT !.frames[c] = FeedIdle])
    /\ ret' = Ret(feeds.frames[c].op, v, "", {})

\* subscribe_price_feed up to "await websockets.connect(ws_url)"
subscribe_price_feed_call(c, symbol) ==
    /\ calls < MaxCalls
    /\ feeds.frames[c].op = ""
    /\ calls' = calls + 1
    /\ LET ws_symbol == WsKey(adapters[1].exchange_type, symbol)
           frame == [op |-> "subscribe_price_feed", pc |-> "connect",
                     symbol |-> ws_symbol, websocket |-> 0]
       IN IF ws_symbol \in DOMAIN feeds.ws_connections
          THEN /\ SetFeeds(feeds)
               /\ ret' = Ret("subscribe_price_feed", "true", "Already subscribed", {})
          ELSE /\ SetFeeds([feeds EXCEPT !.frames[c] = frame])
               /\ UNCHANGED ret
    /\ UNCHANGED <<engineVars, exchange_configs, exchanges, orders, riskVars,
                   coroutines>>

\* asyncio.create_task(self._handle_price_feed(symbol, websocket, callback))
CreateTask(f, websocket) == [f EXCEPT !.sockets[websocket].task = "listening"]

\* websockets.connect returns or raises: the socket and the callback are
\* stored under the symbol; Binance starts the listener task and returns,
\* Bybit first awaits websocket.send(subscribe_msg)
subscribe_price_feed_connected(c, ok) ==
    /\ feeds.frames[c].op = "subscribe_price_feed"
    /\ feeds.frames[c].pc = "connect"
    /\ ok => Len(feeds.sockets) < MaxSockets
    /\ LET symbol == feeds.frames[c].symbol
           websocket == Len(feeds.sockets) + 1
           stored == [feeds EXCEPT
                         !.sockets = Append(@, [symbol |-> symbol, open |-> TRUE,
                                                task |-> "none",
                                                unsubscribed |-> FALSE]),
                         !.ws_connections = DictPut(@, symbol, websocket),
                         !.price_callbacks = DictPut(@, symbol, "callback")]
       IN IF ~ok THEN FeedReturn(c, feeds, "false")
          ELSE IF adapters[1].exchange_type = "binance"
          THEN FeedReturn(c, CreateTask(stored, websocket), "true")
          ELSE /\ SetFeeds([stored EXCEPT !.frames[c].pc = "send",
                                          !.frames[c].websocket = websocket])
               /\ UNCHANGED ret
    /\ UNCHANGED <<engineVars, exchange_configs, exchanges, orders, riskVars,
                   coroutines, calls>>

\* Bybit: websocket.send returns or raises
subscribe_price_feed_sent(c, ok) ==
    /\ feeds.frames[c].op = "subscribe_price_feed"
    /\ feeds.frames[c].pc = "send"
    /\ IF ok THEN FeedReturn(c, CreateTask(feeds, feeds.frames[c].websocket), "true")
       ELSE FeedReturn(c, feeds, "false")
    /\ UNCHANGED <<engineVars, exchange_configs, exchanges, orders, riskVars,
                   coroutines, calls>>

\* unsubscribe_price_feed up to "await websocket.close()"
unsubscribe_price_feed_call(c, symbol) ==
    /\ calls < MaxCalls
    /\ feeds.frames[c].op = ""
    /\ calls' = calls + 1
    /\ LET ws_symbol == WsKey(adapters[1].exchange_type, symbol)
       IN IF ws_symbol \in DOMAIN feeds.ws_connections
          THEN /\ SetFeeds([feeds EXCEPT !.frames[c] =
                     [op |-> "unsubscribe_price_feed", pc |-> "close",
                      symbol |-> ws_symbol,
                      websocket |-> feeds.ws_connections[ws_symbol]]])
               /\ UNCHANGED ret
          ELSE /\ SetFeeds(feeds)
               /\ ret' = Ret("unsubscribe_price_feed", "false", "", {})
    /\ UNCHANGED <<engineVars, exchange_configs, exchanges, orders, riskVars,
                   coroutines>>

\* websocket.close() returns: the socket is closed; del ws_connections[symbol]
\* and del price_callbacks[symbol] raise KeyError when the entry is gone,
\* which the except clause turns into False
unsubscribe_price_feed_closed(c) ==
    /\ feeds.frames[c].op = "unsubscribe_price_feed"
    /\ feeds.frames[c].pc = "close"
    /\ LET symbol == feeds.frames[c].symbol
           websocket == feeds.frames[c].websocket
           closed == [feeds EXCEPT !.sockets[websocket].open = FALSE]
       IN IF symbol \in DOMAIN closed.ws_connections
          THEN IF symbol \in DOMAIN closed.price_callbacks
               THEN FeedReturn(c, [closed EXCEPT
                        !.ws_connections = DictDel(@, symbol),
                        !.price_callbacks = DictDel(@, symbol),
                        !.sockets[websocket].unsubscribed = TRUE], "true")
               ELSE FeedReturn(c, [closed EXCEPT
                        !.ws_connections = DictDel(@, symbol)], "false")
          ELSE FeedReturn(c, closed, "false")
    /\ UNCHANGED <<engineVars, exchange_configs, exchanges, orders, riskVars,
                   coroutines, calls>>

\* _handle_price_feed: a message arrives on the open socket and the listener
\* awaits callback(price_data)
handle_price_feed_message(websocket) ==
    /\ feeds.sockets[websocket].task = "listening"
    /\ feeds.sockets[websocket].open
    /\ SetFeeds([feeds EXCEPT !.sockets[websocket].task = "callback"])
    /\ ret' = Ret("callback", "invoked", "", {})
    /\ UNCHANGED <<engineVars, exchange_configs, exchanges, orders, riskVars,
                   coroutines, calls>>

\* _handle_price_feed: callback(price_data) returns
handle_price_feed_callback_returns(websocket) ==
    /\ feeds.sockets[websocket].task = "callback"
    /\ SetFeeds([feeds EXCEPT !.sockets[websocket].task = "listening"])
    /\ UNCHANGED <<engineVars, exchange_configs, exchanges, orders, riskVars,
                   coroutines, calls, ret>>

\* _handle_price_feed: the socket was closed or the connection drops, the
\* loop ends and the finally clause deletes the symbol's entries
handle_price_feed_ends(websocket) ==
    /\ feeds.sockets[websocket].task = "listening"
    /\ LET symbol == feeds.sockets[websocket].symbol
       IN SetFeeds([feeds EXCEPT
              !.sockets[websocket].open = FALSE,
              !.sockets[websocket].task = "done",
              !.ws_connections =
                  IF symbol \in DOMAIN @ THEN DictDel(@, symbol) ELSE @,
              !.price_callbacks =
                  IF symbol \in DOMAIN @ THEN DictDel(@, symbol) ELSE @])
    /\ UNCHANGED <<engineVars, exchange_configs, exchanges, orders, riskVars,
                   coroutines, calls, ret>>

NextFeed ==
    \/ \E c \in Callers, symbol \in FeedSymbols : subscribe_price_feed_call(c, symbol)
    \/ \E c \in Callers, ok \in BOOLEAN : subscribe_price_feed_connected(c, ok)
    \/ \E c \in Callers, ok \in BOOLEAN : subscribe_price_feed_sent(c, ok)
    \/ \E c \in Callers, symbol \in FeedSymbols : unsubscribe_price_feed_call(c, symbol)
    \/ \E c \in Callers : unsubscribe_price_feed_closed(c)
    \/ \E websocket \in DOMAIN feeds.sockets : handle_price_feed_message(websocket)
    \/ \E websocket \in DOMAIN feeds.sockets :
          handle_price_feed_callback_returns(websocket)
    \/ \E websocket \in DOMAIN feeds.sockets : handle_price_feed_ends(websocket)

SpecFeed == InitFeed /\ [][NextFeed]_vars

(***************************************************************************)
(* Accounts: UserService, get_current_user and the /auth endpoints         *)
(***************************************************************************)
MaxUsers == 2   \* rows of the users table

Emails == {"a@example.com", "b@example.com"}
Usernames == {"alice", "bob"}
Passwords == {"pw1", "pw2"}
Salts == {"salt1", "salt2"}

\* settings.SECRET_KEY, which signs the tokens
SecretKey == "SECRET_KEY"

\* pwd_context.hash(password) with the salt bcrypt draws
get_password_hash(password, salt) ==
    [scheme |-> "bcrypt", salt |-> salt, digest |-> <<salt, password>>]

\* pwd_context.verify(plain_password, hashed_password): hash the plain
\* password with the salt of the stored hash and compare
verify_password(plain_password, hashed_password) ==
    get_password_hash(plain_password, hashed_password.salt) = hashed_password

\* str(user.id) of the UUID primary key
UuidStr(id) == <<"uuid", id>>

\* the variant of ExistingUser that looks for the email only
ExistingUserByEmail(users, email, username) ==
    {i \in DOMAIN users : users[i].email = email}

\* db.query(User).filter((User.email == email) | (User.username == username))
ExistingUser(users, email, username) ==
    {i \in DOMAIN users : users[i].email = email \/ users[i].username = username}

\* the fields of a row that the User response model returns
UserOut(user) == [id |-> user.id, email |-> user.email, username |-> user.username]

\* create_access_token({"sub": str(user.id), "email": user.email}); the
\* expiry time is left to the moment of verification
create_access_token(user) ==
    [sub |-> UuidStr(user.id), email |-> user.email, signature |-> SecretKey]

\* a token signed with another key
ForgedTokens == {[sub |-> UuidStr(1), email |-> "a@example.com", signature |-> "other"]}

\* jwt.decode(token, settings.SECRET_KEY): <<payload>>, or <<>> for None
verify_token(token, expired) ==
    IF token.signature = SecretKey /\ ~expired THEN <<token>> ELSE <<>>

\* get_current_active_user(get_current_user(credentials, db)): the HTTP status
\* and the user resolved
get_current_user(users, token, expired) ==
    LET payload == verify_token(token, expired)
        found == IF payload = <<>> THEN {}
                 ELSE {i \in DOMAIN users : UuidStr(users[i].id) = payload[1].sub}
    IN IF payload = <<>> THEN [status |-> "401", user |-> 0]
       ELSE IF found = {} THEN [status |-> "401", user |-> 0]
       ELSE LET i == CHOOSE i \in found : TRUE
            IN IF ~users[i].is_active THEN [status |-> "400", user |-> 0]
               ELSE [status |-> "200", user |-> i]

InitAuth ==
    /\ db = [sid \in StrategyIds |->
                [user_id |-> DbOwner(sid), type |-> DbType(sid),
                 config |-> IF sid = "s1" THEN GridConfig ELSE MRConfig,
                 is_active |-> TRUE]]
    /\ active_strategies = <<>>
    /\ tasks = [sid \in StrategyIds |-> 0]
    /\ updates = 0
    /\ ticks = 0
    /\ ret = Ret("", "init", "", {})
    /\ exchange_configs = <<>>
    /\ exchanges = <<>>
    /\ orders = <<>>
    /\ NoRiskGate
    /\ NoFactory

\* POST /auth/register: UserService.create_user
register(email, username, password, salt) ==
    /\ Len(accounts.users) < MaxUsers
    /\ LET existing_user == ExistingUser(accounts.users, email, username)
           db_user == [id |-> Len(accounts.users) + 1, email |-> email,
                       username |-> username,
                       hashed_password |-> get_password_hash(password, salt),
                       is_active |-> TRUE]
           request == [email |-> email, username |-> username, password |-> password]
       IN IF existing_user # {}
          THEN /\ ret' = Ret("register", "400",
                     IF \E i \in existing_user : accounts.users[i].email = email
                     THEN "Email already registered" ELSE "Username already taken",
                     {[request |-> request, token |-> <<>>, user |-> <<>>]})
               /\ UNCHANGED accounts
          ELSE /\ accounts' = [accounts EXCEPT !.users = Append(@, db_user)]
               /\ ret' = Ret("register", "201", "",
                     {[request |-> request, token |-> <<>>,
                       user |-> <<UserOut(db_user)>>]})
    /\ UNCHANGED <<engineVars, exchange_configs, exchanges, orders,
                   risk_checks, risk_profiles, clock, pnl_snapshot, factoryVars>>

\* POST /auth/login: UserService.authenticate_user and create_user_token
login(email, password) ==
    /\ LET found == {i \in DOMAIN accounts.users : accounts.users[i].email = email}
           request == [email |-> email, username |-> "", password |-> password]
           denied == /\ ret' = Ret("login", "401", "",
                            {[request |-> request, token |-> <<>>, user |-> <<>>]})
                     /\ UNCHANGED accounts
       IN IF found = {} THEN denied
          ELSE LET user == accounts.users[CHOOSE i \in found : TRUE]
               IN IF ~verify_password(password, user.hashed_password) THEN denied
                  ELSE IF ~user.is_active THEN denied
                  ELSE /\ accounts' = [accounts EXCEPT
                              !.tokens = @ \cup {create_access_token(user)}]
                       /\ ret' = Ret("login", "200", "bearer",
                              {[request |-> request,
                                token |-> <<create_access_token(user)>>,
                                user |-> <<UserOut(user)>>]})
    /\ UNCHANGED <<engineVars, exchange_configs, exchanges, orders,
                   risk_checks, risk_profiles, clock, pnl_snapshot, factoryVars>>

\* GET /auth/me with "Authorization: Bearer <token>"; expired: the token's
\* 30 minutes have passed
get_current_user_info(token, expired) ==
    /\ LET current == get_current_user(accounts.users, token, expired)
           request == [email |-> "", username |-> "", password |-> ""]
       IN ret' = Ret("me", current.status, IF expired THEN "expired" ELSE "",
                     {[request |-> request, token |-> <<token>>,
                       user |-> IF current.status = "200"
                                THEN <<UserOut(accounts.users[current.user])>>
                                ELSE <<>>]})
    /\ UNCHANGED <<engineVars, gatewayVars>>

\* DELETE /auth/me: UserService.deactivate_user
deactivate_current_user(token, expired) ==
    /\ LET current == get_current_user(accounts.users, token, expired)
           request == [email |-> "", username |-> "", password |-> ""]
       IN /\ ret' = Ret("deactivate", IF current.status = "200" THEN "204"
                                      ELSE current.status,
                        IF expired THEN "expired" ELSE "",
                        {[request |-> request, token |-> <<token>>, user |-> <<>>]})
          /\ accounts' = IF current.status = "200"
                         THEN [accounts EXCEPT !.users[current.user].is_active = FALSE]
                         ELSE accounts
    /\ UNCHANGED <<engineVars, exchange_configs, exchanges, orders,
                   risk_checks, risk_profiles, clock, pnl_snapshot, factoryVars>>

NextAuth ==
    \/ \E email \in Emails, username \in Usernames, password \in Passwords,
          salt \in Salts : register(email, username, password, salt)
    \/ \E email \in Emails, password \in Passwords : login(email, password)
    \/ \E token \in accounts.tokens \cup ForgedTokens, expired \in BOOLEAN :
          get_current_user_info(token, expired)
    \/ \E token \in accounts.tokens \cup ForgedTokens, expired \in BOOLEAN :
          deactivate_current_user(token, expired)

SpecAuth == InitAuth /\ [][NextAuth]_vars

(***************************************************************************)
(* Properties                                                              *)
(***************************************************************************)
\* C1: every order an adapter's place_order has sent to its exchange, on the
\* strategy-signal path and on ExchangeService.place_order, is preceded by
\* a risk check of that user's trade that returned is_allowed = true.
C1_OrdersPassRiskGate ==
    \A i \in 1..Len(orders) :
        orders[i].sent =>
        \E j \in 1..Len(risk_checks) :
            /\ risk_checks[j].user_id = orders[i].user_id
            /\ risk_checks[j].request = orders[i].request
            /\ risk_checks[j].is_allowed

\* a status that stands for Error: the enum member or the string the loop stores
IsError(status) == status \in {ERROR, ErrorString}

\* C2: the status of a registered strategy changes only Active -> Paused by
\* pause, Paused -> Active by resume and Active -> Error by a failing loop
\* iteration; start registers an Active strategy (also when it restarts an
\* id), stop removes it; pause and resume never leave Error.
C2_StatusTransitions ==
    [][\A sid \in StrategyIds :
          (/\ Registered(sid)
           /\ sid \in DOMAIN active_strategies'
           /\ active_strategies'[sid].status # active_strategies[sid].status
           /\ ret'.op # "start_strategy")
          => LET a == active_strategies[sid].status
                 b == active_strategies'[sid].status
             IN \/ a = ACTIVE /\ b = PAUSED /\ ret'.op = "pause_strategy"
                \/ a = PAUSED /\ b = ACTIVE /\ ret'.op = "resume_strategy"
                \/ a = ACTIVE /\ IsError(b) /\ ret'.op = "_execute_strategy"]_vars

\* C3: every strategy id has at most one live background execution task.
C3_OneTaskPerStrategy == \A sid \in StrategyIds : tasks[sid] <= 1

\* C7: once a loop iteration of a strategy has raised, the owner's status
\* snapshot of that strategy reports "error".
C7_ErrorIsReported ==
    [][\A sid \in StrategyIds, user \in Users :
          (/\ Registered(sid)
           /\ active_strategies[sid].user_id = user
           /\ active_strategies[sid].status = ErrorString
           /\ ret'.op = "get_strategy_status"
           /\ get_strategy_status(sid, user))
          => /\ ret'.v = "dict"
             /\ \E sn \in ret'.snap : sn.status = "error"]_vars

\* C4: when validate_config or initialize fails, start_strategy returns
\* false, the instance it built is still Stopped, the registry has no new
\* entry and no task is created.
C4_FailedStartRegistersNothing ==
    [][\A sid \in StrategyIds, user \in Users :
          LET row == db[sid]
              made == create_strategy(row.type, row.config, user).s
          IN (/\ row.user_id = user
              /\ row.is_active
              /\ ret'.op = "start_strategy"
              /\ (~validate_config(row.type, row.config) \/ ~initialize(made).ok)
              /\ start_strategy(sid, user))
             => /\ ret'.v = "false"
                /\ start(made).s.status = STOPPED
                /\ active_strategies' = active_strategies
                /\ tasks' = tasks]_vars

\* start_strategy has just failed on a stored config that does not validate
C4_Witness ==
    /\ ret.op = "start_strategy"
    /\ ret.v = "false"
    /\ ret.log = "Failed to start strategy"
    /\ \E sid \in StrategyIds : ~validate_config(db[sid].type, db[sid].config)

\* C5: a successful stop_strategy of a registered id removes the id from the
\* registry, and a task that wakes up while its id is not registered ends
\* without calling execute.
C5_StopEndsTask ==
    [][\A sid \in StrategyIds :
          /\ \A user \in Users :
                 (/\ Registered(sid)
                  /\ ret'.op = "stop_strategy"
                  /\ ret'.v = "true"
                  /\ stop_strategy(sid, user))
                 => sid \notin DOMAIN active_strategies'
          /\ \A price \in MockPrices :
                 (/\ ~Registered(sid)
                  /\ ret'.op = "_execute_strategy"
                  /\ _execute_strategy(sid, price))
                 => /\ tasks'[sid] = tasks[sid] - 1
                    /\ ticks' = ticks
                    /\ UNCHANGED <<active_strategies, db, orders>>]_vars

\* a task has just ended because it found its id removed from the registry
C5_Witness ==
    /\ ret.op = "_execute_strategy"
    /\ ret.v = "exit"
    /\ \E sid \in StrategyIds : ~Registered(sid) /\ tasks[sid] = 0

\* every field but status and is_running is the same in old and new
SameButStatus(old, new) ==
    [new EXCEPT !.status = old.status, !.is_running = old.is_running] = old

\* C6: pause and resume of a registered strategy change nothing but its
\* status and is_running; it stays registered; a task that wakes up while
\* its strategy is Paused produces no signal and no trade.
C6_PauseResumeFrame ==
    [][\A sid \in StrategyIds :
          /\ \A user \in Users :
                 (/\ Registered(sid)
                  /\ ret'.op \in {"pause_strategy", "resume_strategy"}
                  /\ (pause_strategy(sid, user) \/ resume_strategy(sid, user)))
                 => /\ DOMAIN active_strategies' = DOMAIN active_strategies
                    /\ SameButStatus(active_strategies[sid], active_strategies'[sid])
                    /\ \A k \in DOMAIN active_strategies \ {sid} :
                           active_strategies'[k] = active_strategies[k]
                    /\ UNCHANGED <<db, tasks, ticks, orders>>
          /\ \A price \in MockPrices :
                 (/\ Registered(sid)
                  /\ active_strategies[sid].status = PAUSED
                  /\ ret'.op = "_execute_strategy"
                  /\ _execute_strategy(sid, price))
                 => /\ ret'.v = "idle"
                    /\ UNCHANGED <<active_strategies, ticks, orders>>]_vars

\* the only live task has just woken up on a Paused strategy that traded
\* before it was paused
C6_Witness ==
    /\ ret.op = "_execute_strategy"
    /\ ret.v = "idle"
    /\ \E sid \in StrategyIds :
          /\ Registered(sid)
          /\ active_strategies[sid].status = PAUSED
          /\ active_strategies[sid].total_trades > 0
          /\ tasks[sid] > 0
          /\ \A k \in StrategyIds \ {sid} : tasks[k] = 0

\* C8: update_strategy_config by the owner either fails, returns false and
\* leaves the strategy's config and the stored record as they were, or
\* passes and leaves the old config overridden by new_config; no other
\* field of the strategy changes.
C8_UpdateAllOrNothing ==
    [][\A sid \in StrategyIds, user \in Users, n \in 1..Len(NewConfigs) :
          (/\ Registered(sid)
           /\ active_strategies[sid].user_id = user
           /\ ret'.op = "update_strategy_config"
           /\ update_strategy_config(sid, user, NewConfigs[n]))
          => LET old == active_strategies[sid]
                 new == active_strategies'[sid]
                 merged == DictUpdate(old.config, NewConfigs[n])
             IN /\ [new EXCEPT !.config = old.config] = old
                /\ IF validate_config(old.type, merged)
                   THEN ret'.v = "true" /\ new.config = merged
                   ELSE ret'.v = "false" /\ new.config = old.config /\ db' = db]_vars

\* an update has just been refused for a registered strategy
C8_Witness ==
    /\ ret.op = "update_strategy_config"
    /\ ret.v = "false"
    /\ ret.log = "Failed to update strategy configuration"
    /\ active_strategies # <<>>

\* C9: stop_strategy for an id that is not in the registry returns false
\* and changes no state.
C9_StopUnregisteredFails ==
    [][\A sid \in StrategyIds, user \in Users :
          (~Registered(sid) /\ ret'.op = "stop_strategy" /\ stop_strategy(sid, user))
          => ret'.v = "false" /\ UNCHANGED <<engineVars, gatewayVars>>]_vars

\* C10: stop, pause, resume and update_strategy_config by a user who is not
\* the owner return false, get_strategy_status returns None, and the
\* registry with every strategy's status, is_running and config, the stored
\* records and the tasks are unchanged.
C10_NonOwnerRefused ==
    [][\A sid \in StrategyIds, user \in Users :
          (/\ Registered(sid)
           /\ active_strategies[sid].user_id # user
           /\ ret'.op \in {"stop_strategy", "pause_strategy", "resume_strategy",
                           "update_strategy_config", "get_strategy_status"})
          => /\ (\/ stop_strategy(sid, user)
                 \/ pause_strategy(sid, user)
                 \/ resume_strategy(sid, user)
                 \/ \E n \in 1..Len(NewConfigs) :
                       update_strategy_config(sid, user, NewConfigs[n]))
                => ret'.v = "false" /\ UNCHANGED <<active_strategies, db, tasks>>
             /\ get_strategy_status(sid, user)
                => ret'.v = "none" /\ UNCHANGED <<active_strategies, db, tasks>>]_vars

\* a call by a user who does not own the registered strategy has just been
\* refused
C10_Witness ==
    /\ ret.log \in {"cannot stop strategy", "cannot pause strategy",
                    "cannot resume strategy", "cannot update strategy",
                    "cannot access strategy"}
    /\ ret.v \in {"false", "none"}
    /\ active_strategies # <<>>
\* C11: while the config the instance was started with is in force and its
\* max_position is a number >= 0, current_position stays within
\* [-max_position, max_position] after every tick.
C11_PositionWithinMax ==
    updates = 0 =>
    LET s == active_strategies[Instance]
        max_position == Get(s.config, "max_position", 1000 * QtyScale)
    IN (IsNumber(max_position) /\ max_position >= 0)
       => /\ 0 - max_position <= s.current_position
          /\ s.current_position <= max_position

\* C12: every call of calculate_position_size made by execute, also after
\* update_config has changed max_position, returns a quantity >= 0.
C12_QuantityNotNegative ==
    [][\A price \in TickPrices(active_strategies[Instance].type) :
          (/\ ret'.op = "execute"
           /\ ret'.v \in {BUY, SELL}
           /\ InstanceExecute(price))
          => calculate_position_size(active_strategies[Instance],
                                     ret'.v, price).quantity >= 0]_vars
\* C13: after start on a grid config that validate_config accepts, the
\* instance is Active and has exactly 2*num_levels+1 levels, the i-th at
\* base_price + (i - num_levels - 1)*grid_spacing, strictly ascending, buy
\* below base_price, sell above it, all unfilled.
C13_GridLevels ==
    LET s == active_strategies[Instance]
        n == s.config["num_levels"]
        base == s.config["base_price"]
        levels == s.grid_levels
    IN (ret.op = "start" /\ s.type = GRID /\ GridValidateConfig(s.config))
       => /\ ret.v = "true"
          /\ s.status = ACTIVE
          /\ Len(levels) = (2 * n) + 1
          /\ \A i \in 1..Len(levels) :
                /\ levels[i]["price"] = base + ((i - n - 1) * s.config["grid_spacing"])
                /\ levels[i]["price"] < base => levels[i]["type"] = "buy"
                /\ levels[i]["price"] > base => levels[i]["type"] = "sell"
                /\ ~levels[i]["filled"]
          /\ \A i \in 1..(Len(levels) - 1) :
                levels[i]["price"] < levels[i + 1]["price"]

\* a grid of the largest size has just been started, its lowest level at 1
C13_Witness ==
    /\ ret.op = "start"
    /\ ret.v = "true"
    /\ active_strategies[Instance].config["num_levels"] = 2
    /\ active_strategies[Instance].config["base_price"] = 3
    /\ Len(active_strategies[Instance].grid_levels) = 5
    /\ active_strategies[Instance].grid_levels[1]["price"] = 1
\* C14: between resets a grid level triggers at most once, so a tick at
\* the price of the level that the preceding tick has just filled emits no
\* signal.
C14_NoSignalAtFilledLevel ==
    [][\A price \in TickPrices(GRID) :
          (/\ active_strategies[Instance].type = GRID
           /\ ret.op = "execute"
           /\ ret.v \in {BUY, SELL}
           /\ ret.log = ToString(price)
           /\ \E i \in 1..Len(active_strategies[Instance].grid_levels) :
                 /\ active_strategies[Instance].grid_levels[i]["price"] = price
                 /\ active_strategies[Instance].grid_levels[i]["filled"]
           /\ ret'.op = "execute"
           /\ InstanceExecute(price))
          => ret'.v = None]_vars

\* C15: a tick at price p on a running grid looks only at the nearest
\* unfilled level L, the lower-priced one on a tie. It emits BUY iff L is a
\* buy level within trigger_threshold of p and p <= L.price, SELL iff L is a
\* sell level within trigger_threshold and p >= L.price; exactly then L
\* becomes filled and one trade is recorded; otherwise there is no signal
\* and the strategy is unchanged.
C15_GridDecision ==
    [][\A price \in TickPrices(GRID) :
          (/\ active_strategies[Instance].type = GRID
           /\ ret'.op = "execute"
           /\ InstanceExecute(price))
          => LET s == active_strategies[Instance]
                 levels == s.grid_levels
                 unfilled == {i \in 1..Len(levels) : ~levels[i]["filled"]}
                 D(i) == Abs(price - levels[i]["price"])
                 L == CHOOSE i \in unfilled :
                        \A j \in unfilled : D(i) < D(j) \/ (D(i) = D(j) /\ i <= j)
                 within == IF "trigger_threshold" \in DOMAIN s.config
                           THEN D(L) <= s.config["trigger_threshold"]
                           ELSE D(L) * 10 <= s.config["grid_spacing"]
                 buy == /\ unfilled # {}
                        /\ levels[L]["type"] = "buy"
                        /\ within
                        /\ price <= levels[L]["price"]
                 sell == /\ unfilled # {}
                         /\ levels[L]["type"] = "sell"
                         /\ within
                         /\ price >= levels[L]["price"]
             IN /\ ret'.v = BUY <=> buy
                /\ ret'.v = SELL <=> sell
                /\ IF buy \/ sell
                   THEN /\ active_strategies'[Instance].grid_levels
                             = [levels EXCEPT ![L]["filled"] = TRUE]
                        /\ active_strategies'[Instance].total_trades
                             = s.total_trades + 1
                   ELSE /\ ret'.v = None
                        /\ active_strategies' = active_strategies]_vars

\* a tick half way between two unfilled sell levels has filled the lower one
C15_Witness ==
    /\ active_strategies[Instance].type = GRID
    /\ ret.op = "execute"
    /\ ret.v = SELL
    /\ ret.log = ToString(50500)
    /\ active_strategies[Instance].total_trades = 1
    /\ active_strategies[Instance].grid_levels[2]["filled"]
    /\ ~active_strategies[Instance].grid_levels[3]["filled"]

\* the deviation of tick m from the long SMA is computed and is above
\* buy_threshold; price_history[m] is the price of tick m
DeviationAboveBuy(s, m) ==
    LET long_period == s.config["long_period"]
        long_sma == Mean(SubSeq(s.price_history, 1, m), long_period)
        devNum == ((s.price_history[m] * long_sma[2]) - long_sma[1]) * ThresholdScale
    IN /\ m >= long_period
       /\ devNum > s.config["buy_threshold"] * long_sma[1]

\* C16: when a MeanReversion tick emits BUY after an earlier trade, some
\* tick from that trade on had a deviation above buy_threshold (the trade
\* itself when it was a SELL, a later tick when it was a BUY), whatever
\* config updates were interleaved. last_execution is the tick of the
\* latest trade.
C16_BuyHysteresis ==
    [][\A price \in TickPrices(MEAN_REVERSION) :
          (/\ active_strategies[Instance].type = MEAN_REVERSION
           /\ ret'.op = "execute"
           /\ ret'.v = BUY
           /\ InstanceExecute(price)
           /\ active_strategies[Instance].last_execution > 0)
          => \E m \in active_strategies[Instance].last_execution..ticks :
                DeviationAboveBuy(active_strategies[Instance], m)]_vars

\* C17: the Momentum signal is BUY only if RSI < rsi_oversold, the MACD line
\* is above its signal line, the trend is up and current_position <
\* max_position; SELL only if RSI > rsi_overbought, the MACD line is below
\* its signal line, the trend is down and current_position > -max_position;
\* in every other case, RSI, MACD or the signal line missing included, HOLD.
C17_MomentumSignal ==
    ret.op = "_generate_signal" =>
    \A args \in ret.snap :
        LET s == active_strategies[Instance]
            max_position == Get(s.config, "max_position", 1000 * QtyScale)
            present == /\ args.rsi.available
                       /\ IsNumber(args.macd)
                       /\ IsNumber(args.macd_signal)
                       /\ IsNumber(max_position)
            buy == /\ present
                   /\ args.rsi.num < s.config["rsi_oversold"] * args.rsi.den
                   /\ args.macd > args.macd_signal
                   /\ s.trend_direction = "up"
                   /\ s.current_position < max_position
            sell == /\ present
                    /\ args.rsi.num > s.config["rsi_overbought"] * args.rsi.den
                    /\ args.macd < args.macd_signal
                    /\ s.trend_direction = "down"
                    /\ s.current_position > 0 - max_position
        IN /\ ret.v = BUY => buy
           /\ ret.v = SELL => sell
           /\ ret.v \in {BUY, SELL, HOLD}
           /\ (~buy /\ ~sell) => ret.v = HOLD

\* a BUY has been generated with every condition met
C17_Witness ==
    /\ ret.op = "_generate_signal"
    /\ ret.v = BUY
    /\ active_strategies[Instance].trend_direction = "up"
    /\ \E args \in ret.snap : args.rsi = Rsi(25, 1) /\ args.macd = 5

\* C18: the RSI of a price history is absent exactly when there are fewer
\* than rsi_period + 1 prices, and otherwise a number in [0, 100].
C18_RsiInRange ==
    ret.op = "_calculate_rsi" =>
    \A rsi \in ret.snap :
        LET s == active_strategies[Instance]
        IN IF Len(s.price_history) < s.config["rsi_period"] + 1
           THEN ~rsi.available
           ELSE /\ rsi.available
                /\ rsi.den > 0
                /\ 0 <= rsi.num
                /\ rsi.num <= 100 * rsi.den

\* an RSI strictly between 0 and 100 has been computed from a mixed history
C18_Witness ==
    /\ ret.op = "_calculate_rsi"
    /\ Len(active_strategies[Instance].price_history) = MaxHistory
    /\ \E rsi \in ret.snap :
          rsi.available /\ 0 < rsi.num /\ rsi.num < 100 * rsi.den

\* C19: when the time of day is outside the profile's window
\* [trading_hours_start, trading_hours_end], or the day is a weekend day and
\* weekend_trading is false, the check returns is_allowed = false and
\* risk_factors has a trading_hours entry.
C19_OutsideHoursBlocked ==
    \A i \in 1..Len(risk_checks) :
        LET check == risk_checks[i]
            profile == risk_profiles[check.user_id]
            minutes == (clock.hour * 60) + clock.minute
            outside == \/ minutes < MinutesOfDay(profile.trading_hours_start)
                       \/ minutes > MinutesOfDay(profile.trading_hours_end)
            weekend == clock.weekday >= 5 /\ ~profile.weekend_trading
        IN (~check.raised /\ check.user_id \in DOMAIN risk_profiles /\ (outside \/ weekend))
           => /\ ~check.response.is_allowed
              /\ "trading_hours" \in DOMAIN check.response.risk_factors

\* C20: for a user with a risk profile and a check that did not end in the
\* internal-error response, is_allowed is true iff the
\* trading-hours check, the position checks (open-position count, position
\* notional) and the four loss-limit checks all raised no error; a breach of
\* the volatility threshold does not enter.
C20_AllowedIffNoError ==
    \A i \in 1..Len(risk_checks) :
        LET check == risk_checks[i]
            request == check.request
            profile == risk_profiles[check.user_id]
            current_time == Strftime(clock.hour, clock.minute)
            hours_error ==
                \/ clock.weekday >= 5 /\ ~profile.weekend_trading
                \/ ~StrLeq(profile.trading_hours_start, current_time)
                \/ ~StrLeq(current_time, profile.trading_hours_end)
            notional == request.quantity
                           * (IF request.price \in {NoPrice, 0} THEN 50000
                              ELSE request.price)
            position_error ==
                \/ current_positions >= profile.max_positions
                \/ notional > profile.max_position_size * RiskQtyScale
            loss_error ==
                \/ daily_pnl < 0 - profile.daily_loss_limit
                \/ weekly_pnl < 0 - profile.weekly_loss_limit
                \/ monthly_pnl < 0 - profile.monthly_loss_limit
                \/ total_pnl < 0 - profile.total_loss_limit
        IN ~check.raised /\ check.user_id \in DOMAIN risk_profiles
           => (check.response.is_allowed
                  <=> ~(hours_error \/ position_error \/ loss_error))

\* a trade was allowed while the volatility threshold was exceeded
C20_Witness ==
    \E i \in 1..Len(risk_checks) :
        /\ risk_checks[i].user_id \in DOMAIN risk_profiles
        /\ risk_checks[i].response.is_allowed
        /\ current_volatility
              > risk_profiles[risk_checks[i].user_id].max_volatility_threshold

\* C21: for a check of a user with a risk profile that raised nothing, when current_volatility exceeds
\* max_volatility_threshold the response has a "High volatility detected"
\* warning and a volatility entry in risk_factors.
C21_VolatilityWarned ==
    \A i \in 1..Len(risk_checks) :
        LET check == risk_checks[i]
            profile == risk_profiles[check.user_id]
        IN (/\ ~check.raised /\ check.user_id \in DOMAIN risk_profiles
            /\ current_volatility > profile.max_volatility_threshold)
           => /\ \E j \in 1..Len(check.response.warnings) :
                    check.response.warnings[j] = "High volatility detected"
              /\ "volatility" \in DOMAIN check.response.risk_factors


\* C22: for a check of a user with a risk profile that raised nothing, when the account's P&L of a period
\* (daily, weekly, monthly, total) is below minus the profile's loss limit of
\* that period, the response is blocked with the period's "loss limit
\* exceeded" error.
C22_LossLimitBlocks ==
    \A i \in 1..Len(risk_checks) :
        LET check == risk_checks[i]
            profile == risk_profiles[check.user_id]
            Blocked(message) ==
                /\ ~check.response.is_allowed
                /\ \E j \in 1..Len(check.response.errors) :
                       check.response.errors[j] = message
        IN ~check.raised /\ check.user_id \in DOMAIN risk_profiles
           => /\ pnl_snapshot.daily < 0 - profile.daily_loss_limit
                  => Blocked("Daily loss limit exceeded")
              /\ pnl_snapshot.weekly < 0 - profile.weekly_loss_limit
                  => Blocked("Weekly loss limit exceeded")
              /\ pnl_snapshot.monthly < 0 - profile.monthly_loss_limit
                  => Blocked("Monthly loss limit exceeded")
              /\ pnl_snapshot.total < 0 - profile.total_loss_limit
                  => Blocked("Total loss limit exceeded")


\* C23: the risk_score of every response of check_trade_risk is between 0
\* and 100, whether the user has a risk profile or not and whether the check
\* raised or not.
C23_RiskScoreInRange ==
    \A i \in 1..Len(risk_checks) :
        /\ risk_checks[i].response.risk_score >= 0
        /\ risk_checks[i].response.risk_score <= 100

\* a check that raised nothing, of a user with a profile, scored every
\* reachable penalty: outside hours, position limits and a large trade
C23_Witness ==
    \E i \in 1..Len(risk_checks) :
        /\ ~risk_checks[i].raised
        /\ risk_checks[i].user_id \in DOMAIN risk_profiles
        /\ DOMAIN risk_checks[i].response.risk_factors
              = {"trading_hours", "position_limits"}
        /\ risk_checks[i].response.risk_score = 95


\* C24: for a check of a user with a risk profile that raised nothing, an
\* allowed response has neither suggested_quantity nor suggested_price; a
\* blocked response has suggested_quantity = min(0.8 * max_position_size /
\* price, quantity), for a non-market order the suggested_price 0.98 * price
\* (buy) or 1.02 * price (sell), and for a market order no suggested_price.
C24_SuggestionsWhenBlocked ==
    \A i \in 1..Len(risk_checks) :
        LET check == risk_checks[i]
            request == check.request
            response == check.response
            profile == risk_profiles[check.user_id]
            safer == (profile.max_position_size * 8 * RiskQtyScale)
                        \div (10 * request.price)
        IN (~check.raised /\ check.user_id \in DOMAIN risk_profiles)
           => /\ response.is_allowed
                  => /\ response.suggested_quantity = NoQuantity
                     /\ response.suggested_price = NoPrice
              /\ ~response.is_allowed
                  => /\ response.suggested_quantity # NoQuantity
                     /\ response.suggested_quantity
                           = (IF safer <= request.quantity
                              THEN safer ELSE request.quantity)
                     /\ request.order_type = MARKET
                           => response.suggested_price = NoPrice
                     /\ request.order_type # MARKET
                           => response.suggested_price
                                 = (IF request.side = BUY
                                    THEN (request.price * 98) \div 100
                                    ELSE (request.price * 102) \div 100)


\* C24, with the requests that carry no price set apart: for a check of a
\* user with a risk profile that raised nothing, an allowed response has no
\* suggestion; a blocked response to a request with a price has
\* suggested_quantity = min(0.8 * max_position_size / price, quantity), for a
\* non-market order the suggested_price 0.98 * price (buy) or 1.02 * price
\* (sell) and for a market order none; a blocked response to a request
\* without a price has no suggestion.
C24_SuggestionsWhenPriced ==
    \A i \in 1..Len(risk_checks) :
        LET check == risk_checks[i]
            request == check.request
            response == check.response
            profile == risk_profiles[check.user_id]
            safer == (profile.max_position_size * 8 * RiskQtyScale)
                        \div (10 * request.price)
        IN (~check.raised /\ check.user_id \in DOMAIN risk_profiles)
           => /\ response.is_allowed
                  => /\ response.suggested_quantity = NoQuantity
                     /\ response.suggested_price = NoPrice
              /\ (~response.is_allowed /\ request.price # NoPrice)
                  => /\ response.suggested_quantity
                           = (IF safer <= request.quantity
                              THEN safer ELSE request.quantity)
                     /\ request.order_type = MARKET
                           => response.suggested_price = NoPrice
                     /\ request.order_type # MARKET
                           => response.suggested_price
                                 = (IF request.side = BUY
                                    THEN (request.price * 98) \div 100
                                    ELSE (request.price * 102) \div 100)
              /\ (~response.is_allowed /\ request.price = NoPrice)
                  => /\ response.suggested_quantity = NoQuantity
                     /\ response.suggested_price = NoPrice

\* a blocked limit buy of 1.0 at 50000 got the quantity 0.16 (80% of the
\* position-size limit 10000 at that price) and the price 49000
C24_Witness ==
    \E i \in 1..Len(risk_checks) :
        /\ ~risk_checks[i].raised
        /\ risk_checks[i].user_id \in DOMAIN risk_profiles
        /\ ~risk_checks[i].response.is_allowed
        /\ risk_checks[i].request.order_type = LIMIT
        /\ risk_checks[i].request.quantity = RiskQtyScale
        /\ risk_checks[i].response.suggested_quantity = (16 * RiskQtyScale) \div 100
        /\ risk_checks[i].response.suggested_price = 49000


\* C25: when update_exchange, called with a new api_key or api_secret for a
\* row whose adapter was registered, returns, that adapter is disconnected
\* and no longer registered; when the new adapter's connect succeeded, the
\* new adapter is registered and it is the only one of the two.
C25_UpdateReplacesAdapter ==
    [][\A c \in Callers :
          (/\ coroutines[c].op = "update_exchange"
           /\ coroutines'[c].op = ""
           /\ coroutines[c].replaced # 0)
          => LET frame == coroutines[c]
                 old == frame.replaced
                 connected == /\ frame.pc = "connect"
                              /\ adapters'[frame.exchange].is_connected
             IN /\ ~adapters'[old].is_connected
                /\ \A h \in DOMAIN exchanges' : exchanges'[h] # old
                /\ connected
                      => /\ frame.exchange_id \in DOMAIN exchanges'
                         /\ exchanges'[frame.exchange_id] = frame.exchange]_vars

\* C26: while update_exchange replaces the adapter of a row after a change
\* of credentials, the old or the new adapter is registered in every state,
\* and when the new adapter's connect fails the old adapter is still
\* registered and connected when the call returns.
C26_SwapKeepsAnAdapter ==
    [][\A c \in Callers :
          /\ (/\ coroutines'[c].op = "update_exchange"
              /\ coroutines'[c].replaced # 0)
             => \E h \in DOMAIN exchanges' :
                   exchanges'[h] \in {coroutines'[c].replaced,
                                      coroutines'[c].exchange}
          /\ (/\ coroutines[c].op = "update_exchange"
              /\ coroutines[c].replaced # 0
              /\ coroutines[c].pc = "connect"
              /\ coroutines'[c].op = ""
              /\ ~adapters'[coroutines[c].exchange].is_connected)
             => /\ adapters'[coroutines[c].replaced].is_connected
                /\ \E h \in DOMAIN exchanges' :
                      exchanges'[h] = coroutines[c].replaced]_vars

\* C27: when remove_exchange(h) returns true, h is not in the registry and
\* the adapter it removed has is_connected false, no HTTP session and no
\* open WebSocket; remove_exchange of a handle that is not registered
\* returns false and changes neither the registry nor an adapter.
C27_RemoveDisconnects ==
    [][/\ \A c \in Callers :
             (/\ coroutines[c].op = "remove_exchange"
              /\ coroutines'[c].op = ""
              /\ ret'.v = "true")
             => LET frame == coroutines[c]
                IN /\ frame.exchange_id \notin DOMAIN exchanges'
                   /\ ~adapters'[frame.exchange].is_connected
                   /\ ~adapters'[frame.exchange].session
                   /\ adapters'[frame.exchange].ws_connections = {}
       /\ (/\ ret'.op = "remove_exchange"
           /\ ret'.v = "false"
           /\ coroutines' = coroutines)
          => /\ exchanges' = exchanges
             /\ adapters' = adapters]_vars

\* C28: when ExchangeFactory.create_exchange returns, the adapter it built is
\* registered under <<exchange type, first 8 characters of the API key>> if
\* and only if its connect() succeeded; an unsupported exchange type builds
\* no adapter; whenever None is returned the registry is as it was.
C28_RegisteredIffConnected ==
    [][\A c \in Callers :
          /\ (coroutines[c].pc = "connect" /\ coroutines'[c].op = "")
             => LET frame == coroutines[c]
                    exchange == adapters'[frame.exchange]
                    exchange_id == <<exchange.exchange_type, exchange.api_key[1]>>
                IN /\ exchange.exchange_type \in ExchangeType
                   /\ exchange.is_connected
                         => /\ exchange_id \in DOMAIN exchanges'
                            /\ exchanges'[exchange_id] = frame.exchange
                   /\ ~exchange.is_connected
                         => /\ exchanges' = exchanges
                            /\ frame.op = "create_exchange" => ret'.v = "none"
          /\ (/\ coroutines[c].op = ""
              /\ coroutines'[c].pc = "connect")
             => /\ exchanges' = exchanges
                /\ adapters'[coroutines'[c].exchange].exchange_type \in ExchangeType
          /\ (/\ coroutines' = coroutines
              /\ Len(exchange_configs') > Len(exchange_configs))
             => /\ exchange_configs'[Len(exchange_configs')].exchange_type
                      \notin ExchangeType
                /\ ret'.v = "none"
                /\ exchanges' = exchanges
                /\ adapters' = adapters]_vars

\* a create_exchange returned None after a failed connect and left its
\* adapter unregistered, and another adapter is registered
C28_Witness ==
    /\ ret.op = "create_exchange"
    /\ ret.v = "none"
    /\ \E i \in 1..Len(adapters) :
          /\ ~adapters[i].is_connected
          /\ adapters[i].session
          /\ \A h \in DOMAIN exchanges : exchanges[h] # i
    /\ DOMAIN exchanges # {}

\* C29: get_price_from_all_exchanges never raises: whenever it returns, it
\* returns a map, whose entries are adapters it asked for a price.
C29_FanOutCompletes ==
    [][\A c \in Callers :
          (/\ coroutines[c].op = "get_price_from_all_exchanges"
           /\ coroutines'[c].op = "")
          => /\ ret'.v = "map"
             /\ \A entry \in ret'.snap :
                   entry.exchange_id \in coroutines[c].visited]_vars


\* C30: a place_order whose symbol has fewer than 3 characters, whose
\* quantity is <= 0 or, for a non-market order, whose price is <= 0 sends no
\* request and returns None.
C30_ValidatesBeforeRequest ==
    \A i \in 1..Len(orders) :
        LET request == orders[i].request
        IN (\/ Len(request.symbol) < 3
            \/ request.quantity <= 0
            \/ /\ request.order_type # MARKET
               /\ request.price # NoPrice
               /\ request.price <= 0)
           => ~orders[i].sent /\ ~orders[i].order

\* C31: no public adapter operation raises when its network request fails:
\* whenever _make_request logged a failed request, the operation returned a
\* soft failure value (None, an empty collection or false).
C31_NoAdapterRaise ==
    ret.log = RequestError => ret.v \in {"none", "empty", "false"}

C32_UnsubscribeStopsFeed ==
    [][/\ \A c \in Callers :
            (feeds.frames[c].op = "unsubscribe_price_feed"
                /\ feeds'.frames[c].op = "") =>
                LET symbol == feeds.frames[c].symbol
                    websocket == feeds.frames[c].websocket
                IN /\ ret'.v = "true"
                   /\ ~feeds'.sockets[websocket].open
                   /\ feeds'.sockets[websocket].task = "done"
                   /\ symbol \notin DOMAIN feeds'.ws_connections
                   /\ symbol \notin DOMAIN feeds'.price_callbacks
       /\ \A websocket \in DOMAIN feeds.sockets :
            (feeds.sockets[websocket].task = "listening"
                /\ feeds'.sockets[websocket].task = "callback") =>
                ~feeds.sockets[websocket].unsubscribed]_vars

\* C36: for each symbol at most one listener task is live and at most one
\* socket is open, the socket registered in ws_connections is open, and an
\* open socket with a live listener is the one registered under its symbol.
C36_OneListenerPerSymbol ==
    \A symbol \in {feeds.sockets[w].symbol : w \in DOMAIN feeds.sockets} :
        LET mine == {w \in DOMAIN feeds.sockets : feeds.sockets[w].symbol = symbol}
            live == {w \in mine : feeds.sockets[w].task \in {"listening", "callback"}}
        IN /\ Cardinality(live) <= 1
           /\ Cardinality({w \in mine : feeds.sockets[w].open}) <= 1
           /\ symbol \in DOMAIN feeds.ws_connections =>
                 feeds.sockets[feeds.ws_connections[symbol]].open
           /\ \A w \in live :
                 feeds.sockets[w].open =>
                    /\ symbol \in DOMAIN feeds.ws_connections
                    /\ feeds.ws_connections[symbol] = w

\* C34: after a successful registration the user can log in with the same
\* email and password (the row exists, is active and verifies the password);
\* a login with the email and password of an active user succeeds and
\* returns a bearer token; that token, presented to /auth/me before it
\* expires while the user is active, resolves to the user who logged in;
\* login and /auth/me succeed only for an active user; and a registration
\* with an email or a username already in the table is rejected and changes
\* nothing.
C34_AuthRoundTrip ==
    [][\A call \in ret'.snap :
        LET users == accounts.users
            request == call.request
            matching == {i \in DOMAIN users :
                            /\ users[i].email = request.email
                            /\ verify_password(request.password,
                                               users[i].hashed_password)}
        IN /\ (ret'.op = "register" /\ ret'.v = "201") =>
                 \E i \in DOMAIN accounts'.users :
                    /\ accounts'.users[i].email = request.email
                    /\ accounts'.users[i].username = request.username
                    /\ accounts'.users[i].is_active
                    /\ verify_password(request.password,
                                       accounts'.users[i].hashed_password)
           /\ (/\ ret'.op = "register"
               /\ \E i \in DOMAIN users :
                     \/ users[i].email = request.email
                     \/ users[i].username = request.username) =>
                 ret'.v = "400" /\ accounts' = accounts
           /\ ret'.op = "login" =>
                 /\ (\E i \in matching : users[i].is_active) =>
                       /\ ret'.v = "200"
                       /\ ret'.log = "bearer"
                       /\ call.token # <<>>
                       /\ \E i \in matching :
                             call.token[1].sub = UuidStr(users[i].id)
                 /\ ret'.v = "200" => \E i \in matching : users[i].is_active
           /\ ret'.op = "me" =>
                 LET token == call.token[1]
                     owner == {i \in DOMAIN users :
                                  UuidStr(users[i].id) = token.sub}
                 IN /\ (/\ token \in accounts.tokens
                        /\ ret'.log # "expired"
                        /\ \E i \in owner : users[i].is_active) =>
                          /\ ret'.v = "200"
                          /\ call.user[1].email = token.email
                          /\ UuidStr(call.user[1].id) = token.sub
                    /\ ret'.v = "200" => \E i \in owner : users[i].is_active]_vars

\* with two users registered, /auth/me has resolved a token to its user
C34_Witness ==
    /\ ret.op = "me"
    /\ ret.v = "200"
    /\ Len(accounts.users) = 2
    /\ \E i \in DOMAIN accounts.users : ~accounts.users[i].is_active

\* C35: every registered strategy whose status is Active and whose
\* is_running flag is true has a live background execution task.
C35_ActiveIsExecuted ==
    \A sid \in StrategyIds :
        (/\ Registered(sid)
         /\ active_strategies[sid].status = ACTIVE
         /\ active_strategies[sid].is_running)
        => tasks[sid] >= 1

\* C37: when ExchangeFactory.create_exchange registers an adapter under a
\* handle that is already registered, the adapter registered before is
\* either kept or no longer connected.
C37_CreateNeverReplacesSilently ==
    [][\A c \in Callers :
          (/\ coroutines[c].pc = "connect"
           /\ coroutines'[c].op = ""
           /\ coroutines[c].exchange_id \in DOMAIN exchanges)
          => LET exchange_id == coroutines[c].exchange_id
                 registered == exchanges[exchange_id]
             IN \/ /\ exchange_id \in DOMAIN exchanges'
                   /\ exchanges'[exchange_id] = registered
                \/ ~adapters'[registered].is_connected]_vars

\* C38: when remove_exchange(h) resumes from disconnecting the old adapter
\* and a create_exchange has meanwhile registered a new connected adapter
\* under h, the new adapter stays registered under h (exchanges and
\* connections are written and deleted together, so the registry stands for
\* the key set of both).
C38_RemoveKeepsNewAdapter ==
    [][\A c \in Callers :
          LET frame == coroutines[c]
          IN (/\ frame.op = "remove_exchange"
              /\ frame.pc = "disconnect"
              /\ coroutines'[c].op = ""
              /\ frame.exchange_id \in DOMAIN exchanges
              /\ exchanges[frame.exchange_id] # frame.exchange
              /\ adapters[exchanges[frame.exchange_id]].is_connected)
             => /\ frame.exchange_id \in DOMAIN exchanges'
                /\ exchanges'[frame.exchange_id] = exchanges[frame.exchange_id]]_vars

\* C39: after a successful update_config on a running Grid strategy, the
\* levels of the ladder that execute reads lie at base_price + i*grid_spacing
\* for i = -num_levels..num_levels (those above 0), computed from the
\* current config.
C39_LadderMatchesConfig ==
    LET s == active_strategies[Instance]
    IN (/\ ret.op = "update_config"
        /\ ret.v = "true"
        /\ s.type = GRID
        /\ s.is_running)
       => LET base_price == Get(s.config, "base_price", 0)
              grid_spacing == Get(s.config, "grid_spacing", 0)
              num_levels == Get(s.config, "num_levels", 10)
          IN {s.grid_levels[i]["price"] : i \in DOMAIN s.grid_levels} =
             {price \in {base_price + i * grid_spacing :
                            i \in (0 - num_levels)..num_levels} : price > 0}


\* C40: a start through the control endpoint, called by the owner on a strategy
\* that is not running and whose stored config is valid, answers 200 and
\* leaves the strategy registered with status ACTIVE: for a row as the create
\* endpoint made it and for one stopped through the same endpoint
C40_StartThroughEndpoint ==
    [][\A sid \in StrategyIds :
          (/\ ret'.op = "control_strategy"
           /\ ret'.log = "start"
           /\ ret'.snap = {[strategy_id |-> sid, user_id |-> db[sid].user_id]}
           /\ ~Registered(sid)
           /\ validate_config(db[sid].type, db[sid].config)
           /\ ret' # ret)
          => /\ ret'.v = "200"
             /\ sid \in DOMAIN active_strategies'
             /\ active_strategies'[sid].status = ACTIVE]_vars
====
